---- MODULE Spec2Model ----
(***************************************************************************)
(* Model of cc-profiler's session runtime.                                 *)
(*                                                                         *)
(*   - InteractionTracker (src/src/pty/interactionTracker.ts): the         *)
(*     keystroke/turn state machine with its Node timers.                  *)
(*   - runSession (src/src/session/runSession.ts): the session lifecycle   *)
(*     and its finalize routine.                                           *)
(*                                                                         *)
(* Optional JavaScript values (T | undefined) are sequences of length at   *)
(* most one: Undefined is the empty sequence, Some(x) is <<x>>.            *)
(***************************************************************************)
EXTENDS Integers, Sequences, FiniteSets, TLC

\* ---------------------------------------------------------------- bounds
\* Latest clock reading (ms) the model explores.
MaxTime == 4
\* Number of handleInput / handleOutput / markTurn calls explored.
MaxEvents == 3
\* Longest stdin chunk, in characters.
MaxChunkLen == 2
\* Largest byte length of one child output chunk.
MaxOutputBytes == 1
\* Number of stdin chunks and child output chunks explored within one runSession.
MaxSessionEvents == 1
\* Number of stdin chunks and child output chunks explored in a session run
\* without overlay, external log, duration limit and interrupt.
MaxStdinChunks == 2
\* Number of tick calls of the process monitor explored, the initial one included.
MaxTicks == 4
\* Largest size of markers.jsonl, in bytes, and number of tick calls of the
\* marker watcher explored, the initial one included.
MaxFileBytes == 6
MaxWatcherTicks == 4
\* Number of .jsonl files under the projects directory, largest file size in
\* bytes, number of queries made on the external-log tracker, and number of
\* changes made to the files while the tracker is in use.
MaxLogFiles == 2
MaxLogSize == 2
MaxQueries == 2
MaxLogChanges == 1
\* Number of lines of the log handed to the correlator.
MaxLogLines == 2
\* Number of `mark` invocations explored.
MaxMarks == 2
MaxSessions == 3
MaxMappingLines == 3
\* Tracker options of the explored session (RunSessionOptions).
burstIdleMs == 1
interactionTimeoutMs == 2

\* ---------------------------------------------------------------- values
Undefined == << >>
Some(x) == << x >>

\* Characters of a stdin chunk: two printable bytes, CR and LF.
Chars == {"a", "b", "CR", "LF"}

RECURSIVE SeqsUpTo(_, _)
SeqsUpTo(S, n) ==
  IF n = 0 THEN { << >> }
  ELSE LET shorter == SeqsUpTo(S, n - 1)
       IN shorter \cup { Append(s, c) : s \in { x \in shorter : Len(x) = n - 1 }, c \in S }

\* Non-empty stdin chunks (buf.toString("utf8")).
Chunks == SeqsUpTo(Chars, MaxChunkLen) \ { << >> }

\* Buffer.byteLength(str, "utf8") for the single-byte characters of Chars.
byteLength(str) == Len(str)

\* turnDetection passed to the tracker by runSession.
turnDetection == "enter"

\* The sources markTurn is called with (runSession passes "hotkey").
MarkSources == {"hotkey"}

VARIABLES
  now,        \* clock.nowMs()
  tracker,    \* the InteractionTracker object, the interactions it created and their pending timers
  shadow,     \* a second tracker driven by chunks of the same length and terminator presence
  nEvents,    \* number of handleInput / handleOutput / markTurn calls so far
  nOutputs,   \* number of handleOutput calls so far
  sawOutput,  \* [id, at]: interaction id was active when its first output event was delivered at time at
  differed,   \* some chunk handed to the shadow differed in content from the tracker's
  ended,      \* endSession has been called
  opts,       \* RunSessionOptions of the explored session
  rs,         \* runSession's closure variables and the position of its body
  fin,        \* position of each invocation of finalize, by caller
  host,       \* child process, host listeners, terminal mode and the files written
  trace,      \* effects of runSession's teardown, in the order they happened
  sampler,    \* the process monitor started by startProcessMonitor, its probes and its callbacks' calls
  watcher,    \* the marker watcher started by startMarkerWatcher, markers.jsonl and the markers emitted
  jsonl,      \* the JsonlTracker, the .jsonl files under the projects directory and the file operations made
  corr,       \* a call of correlateJsonlToTurns: its log, its options, a second log and both results
  marks       \* the `mark` invocations made, the lines they appended and the MarkerEvents derived

tvars == << now, tracker, shadow, nEvents, nOutputs, sawOutput, differed, ended >>
svars == << opts, rs, fin, host, trace >>
cvars == << sampler, watcher, jsonl, corr, marks >>
vars == << now, tracker, shadow, nEvents, nOutputs, sawOutput, differed, ended,
           opts, rs, fin, host, trace, sampler, watcher, jsonl, corr, marks >>
\* The components other than the process monitor, other than the marker
\* watcher, other than the external-log tracker, and other than the correlator.
exceptSampler == << watcher, jsonl, corr, marks >>
exceptWatcher == << sampler, jsonl, corr, marks >>
exceptJsonl == << sampler, watcher, corr, marks >>
exceptCorr == << sampler, watcher, jsonl, marks >>
exceptMarks == << sampler, watcher, jsonl, corr >>

\* ---------------------------------------------------------------- InteractionTracker

\* Variant: only the line feed is recognised as a terminator.
bufferContainsEnterLfOnly(str) ==
  \E i \in 1..Len(str) : str[i] = "LF"

bufferContainsEnter(str) ==
  \E i \in 1..Len(str) : str[i] = "LF" \/ str[i] = "CR"

\* clearTimeout(handle): a handle that is undefined or has already fired is ignored.
clearTimeout(timers, handle) ==
  IF handle = Undefined THEN timers ELSE timers \ { handle[1] }

\* The handle setTimeout returns for a callback bound to interaction `id`.
TimerHandle(id, kind, due) == [it |-> id, kind |-> kind, due |-> due]

startInteraction(t, kind, t0Ms, turnIndex) ==
  LET id == t.nextId
      h == TimerHandle(id, "noOutput", t0Ms + interactionTimeoutMs)
      it == [ id |-> id,
              kind |-> kind,
              t0Ms |-> t0Ms,
              firstOutputAtMs |-> Undefined,
              lastOutputAtMs |-> Undefined,
              inputBytes |-> 0,
              outputBytes |-> 0,
              turnIndex |-> turnIndex,
              idleTimer |-> Undefined,
              noOutputTimeout |-> Some(h) ]
  IN [ t EXCEPT !.nextId = id + 1,
                !.its = (id :> it) @@ @,
                !.timers = @ \cup {h} ]

\* Variant: t1Ms is taken from the last output and t2Ms from the first.
InteractionOfSwapped(it, reason) ==
  [ id |-> it.id,
    kind |-> it.kind,
    t0Ms |-> it.t0Ms,
    t1Ms |-> IF it.lastOutputAtMs = Undefined THEN Undefined
             ELSE Some(it.lastOutputAtMs[1] - it.t0Ms),
    t2Ms |-> IF it.firstOutputAtMs = Undefined THEN Undefined
             ELSE Some(it.firstOutputAtMs[1] - it.t0Ms),
    inputBytes |-> it.inputBytes,
    outputBytes |-> it.outputBytes,
    turnIndex |-> it.turnIndex,
    endReason |-> reason ]

\* Variant: t2Ms is left out when a single output was observed.
InteractionOfSingleOutput(it, reason) ==
  [ id |-> it.id,
    kind |-> it.kind,
    t0Ms |-> it.t0Ms,
    t1Ms |-> IF it.firstOutputAtMs = Undefined THEN Undefined
             ELSE Some(it.firstOutputAtMs[1] - it.t0Ms),
    t2Ms |-> IF it.lastOutputAtMs = Undefined \/ it.lastOutputAtMs = it.firstOutputAtMs
             THEN Undefined
             ELSE Some(it.lastOutputAtMs[1] - it.t0Ms),
    inputBytes |-> it.inputBytes,
    outputBytes |-> it.outputBytes,
    turnIndex |-> it.turnIndex,
    endReason |-> reason ]

\* The Interaction record finalize builds from the active interaction.
InteractionOf(it, reason) ==
  [ id |-> it.id,
    kind |-> it.kind,
    t0Ms |-> it.t0Ms,
    t1Ms |-> IF it.firstOutputAtMs = Undefined THEN Undefined
             ELSE Some(it.firstOutputAtMs[1] - it.t0Ms),
    t2Ms |-> IF it.lastOutputAtMs = Undefined THEN Undefined
             ELSE Some(it.lastOutputAtMs[1] - it.t0Ms),
    inputBytes |-> it.inputBytes,
    outputBytes |-> it.outputBytes,
    turnIndex |-> it.turnIndex,
    endReason |-> reason ]

\* Variant: the interaction's timers are left pending.
finalizeKeepsTimers(t, id, reason) ==
  LET it == t.its[id]
  IN [ t EXCEPT !.activeKeystroke = IF @ = Some(id) THEN Undefined ELSE @,
                !.activeTurn = IF @ = Some(id) THEN Undefined ELSE @,
                !.out = Append(@, [cb |-> "onInteraction", v |-> InteractionOf(it, reason)]) ]

finalize(t, id, reason) ==
  LET it == t.its[id]
  IN [ t EXCEPT !.timers = clearTimeout(clearTimeout(@, it.idleTimer), it.noOutputTimeout),
                !.activeKeystroke = IF @ = Some(id) THEN Undefined ELSE @,
                !.activeTurn = IF @ = Some(id) THEN Undefined ELSE @,
                !.out = Append(@, [cb |-> "onInteraction", v |-> InteractionOf(it, reason)]) ]

\* Variant: the TurnEvent carries the counter's value from before the increment.
beginTurnStaleIndex(t, source, nowMs) ==
  LET t1 == [ t EXCEPT !.turnIndex = @ + 1 ]
      t2 == [ t1 EXCEPT !.out = Append(@, [cb |-> "onTurn",
                                           v |-> [index |-> t.turnIndex, tMs |-> nowMs, source |-> source]]) ]
      t3 == IF t2.activeTurn # Undefined THEN finalize(t2, t2.activeTurn[1], "overlap") ELSE t2
      t4 == startInteraction(t3, "turn", nowMs, Some(t3.turnIndex))
  IN [ t4 EXCEPT !.activeTurn = Some(t3.nextId) ]

\* Variant: the active turn interaction is replaced without being finalized.
beginTurnNoOverlap(t, source, nowMs) ==
  LET t1 == [ t EXCEPT !.turnIndex = @ + 1 ]
      t2 == [ t1 EXCEPT !.out = Append(@, [cb |-> "onTurn",
                                           v |-> [index |-> t1.turnIndex, tMs |-> nowMs, source |-> source]]) ]
      t4 == startInteraction(t2, "turn", nowMs, Some(t2.turnIndex))
  IN [ t4 EXCEPT !.activeTurn = Some(t2.nextId) ]

\* Variant: the previous turn is finalized before onTurn is called.
beginTurnLateOnTurn(t, source, nowMs) ==
  LET t1 == [ t EXCEPT !.turnIndex = @ + 1 ]
      t2 == IF t1.activeTurn # Undefined THEN finalize(t1, t1.activeTurn[1], "overlap") ELSE t1
      t3 == [ t2 EXCEPT !.out = Append(@, [cb |-> "onTurn",
                                           v |-> [index |-> t1.turnIndex, tMs |-> nowMs, source |-> source]]) ]
      t4 == startInteraction(t3, "turn", nowMs, Some(t3.turnIndex))
  IN [ t4 EXCEPT !.activeTurn = Some(t3.nextId) ]

beginTurn(t, source, nowMs) ==
  LET t1 == [ t EXCEPT !.turnIndex = @ + 1 ]
      t2 == [ t1 EXCEPT !.out = Append(@, [cb |-> "onTurn",
                                           v |-> [index |-> t1.turnIndex, tMs |-> nowMs, source |-> source]]) ]
      t3 == IF t2.activeTurn # Undefined THEN finalize(t2, t2.activeTurn[1], "overlap") ELSE t2
      t4 == startInteraction(t3, "turn", nowMs, Some(t3.turnIndex))
  IN [ t4 EXCEPT !.activeTurn = Some(t3.nextId) ]

\* Variant: the first output is not recorded and the no-output timer stays pending.
observeOutputNoFirst(t, id, nowMs, bytes) ==
  LET it == t.its[id]
      h == TimerHandle(id, "idle", nowMs + burstIdleMs)
      it1 == [ it EXCEPT !.lastOutputAtMs = Some(nowMs),
                         !.outputBytes = @ + bytes,
                         !.idleTimer = Some(h) ]
  IN [ t EXCEPT !.its[id] = it1, !.timers = clearTimeout(@, it.idleTimer) \cup {h} ]

\* Variant: the pending idle timer is not cancelled before a new one is set.
observeOutputKeepsIdle(t, id, nowMs, bytes) ==
  LET it == t.its[id]
      first == it.firstOutputAtMs = Undefined
      h == TimerHandle(id, "idle", nowMs + burstIdleMs)
      timers1 == IF first THEN clearTimeout(t.timers, it.noOutputTimeout) ELSE t.timers
      it1 == [ it EXCEPT !.firstOutputAtMs = IF first THEN Some(nowMs) ELSE @,
                         !.noOutputTimeout = IF first THEN Undefined ELSE @,
                         !.lastOutputAtMs = Some(nowMs),
                         !.outputBytes = @ + bytes,
                         !.idleTimer = Some(h) ]
  IN [ t EXCEPT !.its[id] = it1, !.timers = timers1 \cup {h} ]

observeOutput(t, id, nowMs, bytes) ==
  LET it == t.its[id]
      first == it.firstOutputAtMs = Undefined
      h == TimerHandle(id, "idle", nowMs + burstIdleMs)
      timers1 == IF first THEN clearTimeout(t.timers, it.noOutputTimeout) ELSE t.timers
      timers2 == clearTimeout(timers1, it.idleTimer) \cup {h}
      it1 == [ it EXCEPT !.firstOutputAtMs = IF first THEN Some(nowMs) ELSE @,
                         !.noOutputTimeout = IF first THEN Undefined ELSE @,
                         !.lastOutputAtMs = Some(nowMs),
                         !.outputBytes = @ + bytes,
                         !.idleTimer = Some(h) ]
  IN [ t EXCEPT !.its[id] = it1, !.timers = timers2 ]

\* Variant: the bytes of a terminator chunk are also added to the turn
\* interaction the new turn overlaps.
handleInputCountsOverlapped(t, data, byteLen, nowMs) ==
  LET t1 == IF t.activeKeystroke = Undefined
            THEN [ startInteraction(t, "keystroke", nowMs, Undefined)
                     EXCEPT !.activeKeystroke = Some(t.nextId) ]
            ELSE t
      t2 == [ t1 EXCEPT !.its[t1.activeKeystroke[1]].inputBytes = @ + byteLen ]
      t2b == IF t2.activeTurn # Undefined
             THEN [ t2 EXCEPT !.its[t2.activeTurn[1]].inputBytes = @ + byteLen ]
             ELSE t2
  IN IF turnDetection = "enter" /\ bufferContainsEnter(data)
     THEN LET t3 == beginTurn(t2b, "enter", nowMs)
          IN [ t3 EXCEPT !.its[t3.activeTurn[1]].inputBytes = @ + byteLen ]
     ELSE t2b

RECURSIVE beginTurns(_, _, _)
\* n turns begun one after the other.
beginTurns(t, n, nowMs) ==
  IF n = 0 THEN t ELSE beginTurns(beginTurn(t, "enter", nowMs), n - 1, nowMs)

\* Variant: a turn is begun for every line terminator of the chunk.
handleInputTurnPerTerminator(t, data, byteLen, nowMs) ==
  LET t1 == IF t.activeKeystroke = Undefined
            THEN [ startInteraction(t, "keystroke", nowMs, Undefined)
                     EXCEPT !.activeKeystroke = Some(t.nextId) ]
            ELSE t
      t2 == [ t1 EXCEPT !.its[t1.activeKeystroke[1]].inputBytes = @ + byteLen ]
      n == Cardinality({ i \in 1..Len(data) : data[i] = "LF" \/ data[i] = "CR" })
  IN IF turnDetection = "enter" /\ bufferContainsEnter(data)
     THEN LET t3 == beginTurns(t2, n, nowMs)
          IN [ t3 EXCEPT !.its[t3.activeTurn[1]].inputBytes = @ + byteLen ]
     ELSE IF t2.activeTurn # Undefined
          THEN [ t2 EXCEPT !.its[t2.activeTurn[1]].inputBytes = @ + byteLen ]
          ELSE t2

handleInput(t, data, byteLen, nowMs) ==
  LET t1 == IF t.activeKeystroke = Undefined
            THEN [ startInteraction(t, "keystroke", nowMs, Undefined)
                     EXCEPT !.activeKeystroke = Some(t.nextId) ]
            ELSE t
      t2 == [ t1 EXCEPT !.its[t1.activeKeystroke[1]].inputBytes = @ + byteLen ]
  IN IF turnDetection = "enter" /\ bufferContainsEnter(data)
     THEN LET t3 == beginTurn(t2, "enter", nowMs)
          IN [ t3 EXCEPT !.its[t3.activeTurn[1]].inputBytes = @ + byteLen ]
     ELSE IF t2.activeTurn # Undefined
          THEN [ t2 EXCEPT !.its[t2.activeTurn[1]].inputBytes = @ + byteLen ]
          ELSE t2

\* Variant: while a turn interaction is active the output is counted into it
\* alone.
handleOutputTurnOnly(t, byteLen, nowMs) ==
  IF t.activeTurn # Undefined
  THEN observeOutput(t, t.activeTurn[1], nowMs, byteLen)
  ELSE IF t.activeKeystroke # Undefined
       THEN observeOutput(t, t.activeKeystroke[1], nowMs, byteLen) ELSE t

handleOutput(t, byteLen, nowMs) ==
  LET t1 == IF t.activeKeystroke # Undefined
            THEN observeOutput(t, t.activeKeystroke[1], nowMs, byteLen) ELSE t
  IN IF t1.activeTurn # Undefined
     THEN observeOutput(t1, t1.activeTurn[1], nowMs, byteLen) ELSE t1

endSession(t) ==
  LET t1 == IF t.activeKeystroke # Undefined
            THEN finalize(t, t.activeKeystroke[1], "sessionEnd") ELSE t
      t2 == IF t1.activeTurn # Undefined
            THEN finalize(t1, t1.activeTurn[1], "sessionEnd") ELSE t1
  IN [ t2 EXCEPT !.activeKeystroke = Undefined, !.activeTurn = Undefined ]

getCurrentTurnIndex(t) == t.turnIndex

markTurn(t, source, nowMs) == beginTurn(t, source, nowMs)

\* The callback of the no-output timer set by startInteraction.
noOutputTimeoutCallback(t, id) ==
  IF t.its[id].firstOutputAtMs = Undefined THEN finalize(t, id, "timeout") ELSE t

\* The callback of the idle timer set by observeOutput.
idleTimerCallback(t, id) == finalize(t, id, "burstIdle")

\* Node runs the callback of a due timer and forgets the timer.
runTimer(t, h) ==
  LET t1 == [ t EXCEPT !.timers = @ \ {h} ]
  IN IF h.kind = "noOutput" THEN noOutputTimeoutCallback(t1, h.it)
     ELSE idleTimerCallback(t1, h.it)

\* new InteractionTracker(opts)
NewTracker ==
  [ nextId |-> 1,
    turnIndex |-> 0,
    activeKeystroke |-> Undefined,
    activeTurn |-> Undefined,
    its |-> << >>,
    timers |-> {},
    out |-> << >> ]

\* The interactions in the tracker's two active slots.
ActiveIds(t) ==
  { t.activeKeystroke[i] : i \in 1..Len(t.activeKeystroke) }
    \cup { t.activeTurn[i] : i \in 1..Len(t.activeTurn) }

\* ---------------------------------------------------------------- emitted records

\* The Interaction values passed to onInteraction, in emission order.
Interactions(t) ==
  LET calls == SelectSeq(t.out, LAMBDA c : c.cb = "onInteraction")
  IN [ k \in 1..Len(calls) |-> calls[k].v ]

\* The TurnEvent values passed to onTurn, in emission order.
Turns(t) ==
  LET calls == SelectSeq(t.out, LAMBDA c : c.cb = "onTurn")
  IN [ k \in 1..Len(calls) |-> calls[k].v ]

EndReasons == {"burstIdle", "timeout", "sessionEnd", "overlap"}

\* Number of emitted interactions with the given id.
TimesEmitted(t, id) ==
  Cardinality({ k \in 1..Len(Interactions(t)) : Interactions(t)[k].id = id })

\* ---------------------------------------------------------------- runSession

\* The places finalize is called from: the callback registered with
\* p.onExit, the callback registered with p.on("exit"), and the catch block.
Callers == {"onExit", "on_exit", "catch"}

ExitCallbacks == {"onExit", "on_exit"}

\* Stdin chunks explored within a session: a printable byte, Enter, Enter
\* followed by a line feed in one chunk, and the two alt+t escape sequences.
SessionChunks == { << "a" >>, << "CR" >>, << "CR", "LF" >>, << "ESC", "t" >>, << "ESC", "T" >> }

\* Options of the tracker-only specification, where runSession is not run.
NoOptions ==
  [ disableMcps |-> FALSE, correlateJsonl |-> FALSE, turnHotkey |-> "off",
    isClaude |-> FALSE, durationMs |-> FALSE ]

\* The closure variables declared at the top of runSession.
NewRun(pc) ==
  [ pc |-> pc,
    overlay |-> FALSE,
    session |-> FALSE,
    endedAtIso |-> FALSE,
    jsonlTracker |-> FALSE,
    jsonlActivePath |-> FALSE,
    sessionJsonl |-> Undefined,
    markerWatcher |-> "none",
    monitor |-> "none",
    tracker |-> FALSE,
    child |-> FALSE,
    onStdinData |-> FALSE,
    onSigint |-> FALSE,
    cleanupTty |-> FALSE,
    durationTimer |-> "none",
    finalized |-> FALSE,
    exitHandled |-> FALSE,
    warnings |-> << >> ]

NotRunning == NewRun("off")

\* The host before runSession is called: no child, no listeners, cooked
\* terminal, no files. pointer tells whether the active-session pointer file
\* exists and pointerFault whether a write or a removal of it failed. stdin holds the chunks the host's stdin has delivered
\* and io the calls onStdinData has made on the tracker and the child, both in
\* order.
NewHost ==
  [ child |-> "none",
    exitCode |-> 0,
    exitCbs |-> {},
    listeners |-> {},
    rawMode |-> FALSE,
    pointer |-> FALSE,
    pointerFault |-> FALSE,
    dataJson |-> << >>,
    reportHtml |-> 0,
    stdin |-> << >>,
    io |-> << >> ]

\* warn(message)
warn(r, message) == [ r EXCEPT !.warnings = Append(@, message) ]

\* What JSON.stringify(session) captures when writeJson is called.
SessionJson(r, t) ==
  [ endedAtIso |-> r.endedAtIso,
    turns |-> Turns(t),
    interactions |-> Interactions(t),
    jsonl |-> r.sessionJsonl,
    warnings |-> r.warnings ]

\* Variant: finalize has no guard against a second invocation.
finalizedNever(r) == FALSE

\* if (finalized) return;
finalizedAlready(r) == r.finalized

\* Variant: onExit has no guard against the second exit registration.
exitHandledNever(r) == FALSE

\* if (exitHandled) return;
exitHandledAlready(r) == r.exitHandled

\* The effects of finalize's synchronous part, up to the call of
\* clearActiveSession, in program order.
FinalizeSyncEffects(r) ==
  (IF r.tracker THEN << "tracker.endSession" >> ELSE << >>)
  \o (IF r.monitor # "none" THEN << "monitor.stop" >> ELSE << >>)
  \o (IF r.markerWatcher # "none" THEN << "markerWatcher.stop" >> ELSE << >>)
  \o (IF r.cleanupTty THEN << "detachResize", "restoreRawMode", "stdin.pause" >> ELSE << >>)
  \o (IF r.onStdinData THEN << "detachStdin" >> ELSE << >>)
  \o (IF r.onSigint THEN << "detachSigint" >> ELSE << >>)
  \o (IF r.child THEN << "child.kill" >> ELSE << >>)

\* child.kill(): a running child is signalled; its exit is observed later.
kill(h) == [ h EXCEPT !.child = IF @ = "running" THEN "killed" ELSE @ ]

\* A call of finalize by caller k, with r, h and tr the closure variables,
\* the host and the effects at the call: an already finalized session returns
\* at once; otherwise the synchronous part runs and the invocation waits for
\* clearActiveSession.
FinalizeCall(k, r, h, tr) ==
  IF finalizedAlready(r)
  THEN /\ rs' = r
       /\ host' = h
       /\ trace' = tr
       /\ fin' = [ fin EXCEPT ![k] = "returnedAtOnce" ]
       /\ UNCHANGED << tracker, ended >>
  ELSE /\ rs' = [ r EXCEPT !.finalized = TRUE,
                           !.monitor = IF @ = "none" THEN @ ELSE "stopped",
                           !.markerWatcher = IF @ = "none" THEN @ ELSE "stopped" ]
       /\ tracker' = IF r.tracker THEN endSession(tracker) ELSE tracker
       /\ ended' = (ended \/ r.tracker)
       /\ host' = [ (IF r.child THEN kill(h) ELSE h)
                      EXCEPT !.listeners = @ \ ( (IF r.cleanupTty THEN {"SIGWINCH", "resize"} ELSE {})
                                                 \cup (IF r.onStdinData THEN {"stdin"} ELSE {})
                                                 \cup (IF r.onSigint THEN {"SIGINT"} ELSE {}) ),
                             !.rawMode = IF r.cleanupTty THEN FALSE ELSE @ ]
       /\ trace' = tr \o FinalizeSyncEffects(r)
       /\ fin' = [ fin EXCEPT ![k] = "clearActiveSession" ]

\* session.jsonl as finalize sets it: whether the tracker had selected a log
\* (activePathSha256), and the correlation, which finalize never sets.
JsonlTracking(r) ==
  IF r.jsonlTracker
    THEN Some([ activePathSha256 |-> r.jsonlActivePath, correlation |-> Undefined ])
    ELSE Undefined

\* finalize after its cleanup awaits: without a session it returns; otherwise
\* it stamps endedAtIso, sets session.jsonl and starts rendering the report.
FinalizeAfterCleanup(k, effects) ==
  IF ~rs.session
  THEN /\ fin' = [ fin EXCEPT ![k] = "returned" ]
       /\ trace' = trace \o effects
       /\ UNCHANGED rs
  ELSE /\ fin' = [ fin EXCEPT ![k] = "render" ]
       /\ trace' = trace \o effects \o << "stampEndedAt" >>
       /\ rs' = [ rs EXCEPT !.endedAtIso = TRUE, !.sessionJsonl = JsonlTracking(rs) ]

\* Variant: finalize goes on without removing the pointer file.
clearActiveSessionSkipped(h, removed) == h

\* clearActiveSession(): fs.rm with force removes the pointer file; an error
\* of fs.rm is swallowed and leaves the file.
clearActiveSession(h, removed) ==
  IF removed \/ ~h.pointer THEN [ h EXCEPT !.pointer = FALSE ]
  ELSE [ h EXCEPT !.pointerFault = TRUE ]

\* await clearActiveSession() completes.
FinalizeClearedActiveSession ==
  \E k \in Callers, removed \in BOOLEAN :
    /\ fin[k] = "clearActiveSession"
    /\ host' = clearActiveSession(host, removed)
    /\ IF rs.overlay
       THEN /\ fin' = [ fin EXCEPT ![k] = "overlay.cleanup" ]
            /\ trace' = Append(trace, "clearActiveSession")
            /\ UNCHANGED rs
       ELSE FinalizeAfterCleanup(k, << "clearActiveSession" >>)
    /\ UNCHANGED << tvars, opts, cvars >>

\* await overlay.cleanup() completes.
FinalizeReleasedOverlay ==
  \E k \in Callers :
    /\ fin[k] = "overlay.cleanup"
    /\ FinalizeAfterCleanup(k, << "overlay.cleanup" >>)
    /\ UNCHANGED << tvars, opts, cvars, host >>

\* await generateReportHtml(session) settles; a failure is recorded as a
\* warning. writeJson is then called: it serializes the session and starts
\* the write, which succeeds or fails.
FinalizeRendered ==
  \E k \in Callers, rendered \in BOOLEAN, written \in BOOLEAN :
    /\ fin[k] = "render"
    /\ LET r1 == IF rendered THEN rs ELSE warn(rs, "Failed to generate HTML report")
       IN /\ rs' = r1
          /\ trace' = trace \o (IF rendered THEN << "render" >> ELSE << "render", "warnRenderFailed" >>)
                            \o << "writeData" >>
          /\ host' = [ host EXCEPT !.dataJson = IF written THEN Append(@, SessionJson(r1, tracker)) ELSE @ ]
          /\ fin' = [ fin EXCEPT ![k] = IF ~written THEN "writeDataFailed"
                                       ELSE IF rendered THEN "writeDataHtml" ELSE "writeData" ]
    /\ UNCHANGED << tvars, opts, cvars >>

\* await writeJson(dataPath, session) settles; report.html is written next
\* if the report was rendered.
FinalizeWroteData ==
  \E k \in Callers, written \in BOOLEAN :
    /\ fin[k] \in {"writeData", "writeDataHtml", "writeDataFailed"}
    /\ IF fin[k] = "writeDataFailed"
       THEN /\ fin' = [ fin EXCEPT ![k] = "threw" ]
            /\ UNCHANGED << host, trace >>
       ELSE IF fin[k] = "writeData"
       THEN /\ fin' = [ fin EXCEPT ![k] = "returned" ]
            /\ UNCHANGED << host, trace >>
       ELSE /\ fin' = [ fin EXCEPT ![k] = IF written THEN "writeReport" ELSE "writeReportFailed" ]
            /\ host' = [ host EXCEPT !.reportHtml = IF written THEN @ + 1 ELSE @ ]
            /\ trace' = Append(trace, "writeReport")
    /\ UNCHANGED << tvars, opts, cvars, rs >>

\* await fs.writeFile(reportPath, html) settles.
FinalizeWroteReport ==
  \E k \in Callers :
    /\ fin[k] \in {"writeReport", "writeReportFailed"}
    /\ fin' = [ fin EXCEPT ![k] = IF fin[k] = "writeReport" THEN "returned" ELSE "threw" ]
    /\ UNCHANGED << tvars, opts, cvars, rs, host, trace >>

\* runSession is called: the output directory, the empty markers file and the
\* active-session pointer are written.
Start ==
  /\ rs.pc = "start"
  /\ rs' = [ rs EXCEPT !.pc = "try" ]
  /\ host' = [ host EXCEPT !.pointer = TRUE ]
  /\ UNCHANGED << tvars, opts, cvars, fin, trace >>

\* One of the writes before the try block fails: runSession rejects. When it
\* is the write of the pointer that fails, the file may have been created.
StartFails ==
  /\ rs.pc = "start"
  /\ rs' = [ rs EXCEPT !.pc = "rejected" ]
  /\ \E created \in BOOLEAN :
       host' = [ host EXCEPT !.pointer = created, !.pointerFault = created ]
  /\ UNCHANGED << tvars, opts, cvars, fin, trace >>

\* createClaudeOverlay, when disableMcps is set: it returns the overlay or throws.
CreateOverlay ==
  /\ rs.pc = "try"
  /\ \E ok \in BOOLEAN :
       rs' = IF ~opts.disableMcps THEN [ rs EXCEPT !.pc = "startup" ]
             ELSE IF ok THEN [ rs EXCEPT !.pc = "startup", !.overlay = TRUE ]
             ELSE [ rs EXCEPT !.pc = "catch" ]
  /\ UNCHANGED << tvars, opts, cvars, fin, host, trace >>

\* From the creation of the session data to the pending promise: the session,
\* the external-log tracker, the marker watcher and the interaction tracker
\* are created; pty.spawn starts the child or throws; then the monitor, the
\* terminal mode, the resize listeners, the duration timer and the handlers
\* of the promise executor are installed.
Startup ==
  /\ rs.pc = "startup"
  /\ \E spawned \in BOOLEAN :
       LET r1 == [ rs EXCEPT !.session = TRUE,
                             !.jsonlTracker = opts.isClaude,
                             !.markerWatcher = "running",
                             !.tracker = TRUE ]
       IN IF ~spawned
          THEN /\ rs' = [ r1 EXCEPT !.pc = "catch" ]
               /\ UNCHANGED host
          ELSE /\ rs' = [ r1 EXCEPT !.pc = "await",
                                    !.child = TRUE,
                                    !.monitor = "running",
                                    !.cleanupTty = TRUE,
                                    !.durationTimer = IF opts.durationMs THEN "pending" ELSE "none",
                                    !.onStdinData = TRUE,
                                    !.onSigint = TRUE ]
               /\ host' = [ host EXCEPT !.child = "running",
                                        !.rawMode = TRUE,
                                        !.listeners = {"SIGWINCH", "resize", "stdin", "SIGINT"} ]
  /\ UNCHANGED << tvars, opts, cvars, fin, trace >>

\* The child writes to the pty: onData feeds the byte length to the tracker.
\* At most `limit` stdin and output chunks are explored.
ChildData(limit) ==
  /\ rs.child
  /\ rs.pc \notin {"start", "try", "startup", "off"}
  /\ host.child \in {"running", "killed"}
  /\ nEvents < limit
  /\ \E byteLen \in 1..MaxOutputBytes :
       tracker' = handleOutput(tracker, byteLen, now)
  /\ nEvents' = nEvents + 1
  /\ nOutputs' = nOutputs + 1
  /\ sawOutput' = sawOutput \cup { [id |-> id, at |-> now] :
                                     id \in { a \in ActiveIds(tracker) : \A r \in sawOutput : r.id # a } }
  /\ UNCHANGED << now, shadow, differed, ended, svars, cvars >>

OnData == ChildData(MaxSessionEvents)

\* The two byte sequences a terminal sends for alt+t: ESC t and ESC T.
HotkeyEscapes == { << "ESC", "t" >>, << "ESC", "T" >> }

\* Variant: only the lower-case escape is taken for the hotkey.
isHotkeyChunkLowerOnly(o, str) ==
  o.turnHotkey = "alt+t" /\ str = << "ESC", "t" >>

\* opts.turnHotkey === "alt+t" && (str === "\u001bt" || str === "\u001bT")
isHotkeyChunk(o, str) ==
  o.turnHotkey = "alt+t" /\ str \in HotkeyEscapes

\* A call made by onStdinData.
Call(op, arg) == [ op |-> op, arg |-> arg ]

\* A stdin chunk arrives: the hotkey marks a turn and is swallowed, any other
\* chunk goes to the tracker and is then written to the child. A turn makes
\* the external-log tracker, if there is one, look for the log.
StdinData(limit) ==
  /\ "stdin" \in host.listeners
  /\ nEvents < limit
  /\ \E str \in SessionChunks :
       IF isHotkeyChunk(opts, str)
       THEN /\ tracker' = markTurn(tracker, "hotkey", now)
            /\ host' = [ host EXCEPT !.stdin = Append(@, str),
                                     !.io = Append(@, Call("markTurn", << "hotkey" >>)) ]
       ELSE /\ tracker' = handleInput(tracker, str, byteLength(str), now)
            /\ host' = [ host EXCEPT !.stdin = Append(@, str),
                                     !.io = @ \o << Call("handleInput", str), Call("write", str) >> ]
  /\ nEvents' = nEvents + 1
  /\ UNCHANGED << now, shadow, nOutputs, sawOutput, differed, ended, opts, cvars, rs, fin, trace >>

OnStdinData == StdinData(MaxSessionEvents)

\* jsonlTracker.recordOnTurn, started by onTurn, finds the external log.
JsonlSelected ==
  /\ rs.jsonlTracker
  /\ ~rs.jsonlActivePath
  /\ Len(Turns(tracker)) > 0
  /\ rs' = [ rs EXCEPT !.jsonlActivePath = TRUE ]
  /\ UNCHANGED << tvars, opts, cvars, fin, host, trace >>

\* The host interrupt: a warning is recorded and the child is killed.
OnSigint ==
  /\ "SIGINT" \in host.listeners
  /\ \A i \in 1..Len(rs.warnings) : rs.warnings[i] # "SIGINT received; terminating session."
  /\ rs' = warn(rs, "SIGINT received; terminating session.")
  /\ host' = kill(host)
  /\ UNCHANGED << tvars, opts, cvars, fin, trace >>

\* The duration timer fires: a warning is recorded and the child is killed.
DurationTimer ==
  /\ rs.durationTimer = "pending"
  /\ rs' = [ warn(rs, "Session duration reached; terminating target process.")
               EXCEPT !.durationTimer = "fired" ]
  /\ host' = kill(host)
  /\ UNCHANGED << tvars, opts, cvars, fin, trace >>

\* Variant: onExit leaves the duration timer armed.
durationTimerKept(r) == r

\* if (durationTimer) clearTimeout(durationTimer); in onExit
clearDurationTimer(r) ==
  [ r EXCEPT !.durationTimer = IF @ = "pending" THEN "cleared" ELSE @ ]

\* onExit(code): the first call clears the duration timer, records a non-zero
\* exit code and calls finalize as caller k; a later call returns at once.
OnExitCall(k, h) ==
  IF exitHandledAlready(rs)
  THEN /\ host' = h
       /\ UNCHANGED << tracker, ended, rs, fin, trace >>
  ELSE LET r1 == clearDurationTimer([ rs EXCEPT !.exitHandled = TRUE ])
           r2 == IF h.exitCode # 0 THEN warn(r1, "Target exited with code") ELSE r1
       IN FinalizeCall(k, r2, h, Append(trace, "onExit"))

\* The child terminates, by itself or after a kill. If the exit registrations
\* have been made, node-pty calls the p.onExit registration at once and has
\* the p.on("exit") registration still to call.
ChildExit ==
  /\ host.child \in {"running", "killed"}
  /\ \E code \in {0, 1} :
       LET h == [ host EXCEPT !.child = "exited", !.exitCode = code ]
       IN IF rs.pc = "await"
          THEN OnExitCall("onExit", [ h EXCEPT !.exitCbs = {"on_exit"} ])
          ELSE /\ host' = h
               /\ UNCHANGED << tracker, ended, rs, fin, trace >>
  /\ UNCHANGED << now, shadow, nEvents, nOutputs, sawOutput, differed, opts, cvars >>

\* The second exit registration calls onExit(code).
OnExit ==
  /\ \E k \in host.exitCbs :
       OnExitCall(k, [ host EXCEPT !.exitCbs = @ \ {k} ])
  /\ UNCHANGED << now, shadow, nEvents, nOutputs, sawOutput, differed, opts, cvars >>

\* await finalize() in onExit settles: the promise is resolved, or rejected
\* when finalize threw. A resolved runSession leaves through the finally
\* block, which clears the duration timer.
OnExitSettled ==
  /\ rs.pc = "await"
  /\ \E k \in ExitCallbacks :
       /\ fin[k] \in {"returned", "returnedAtOnce", "threw"}
       /\ rs' = IF fin[k] = "threw" THEN [ rs EXCEPT !.pc = "catch" ]
                ELSE [ rs EXCEPT !.pc = "resolved",
                                 !.durationTimer = IF @ = "pending" THEN "cleared" ELSE @ ]
  /\ UNCHANGED << tvars, opts, cvars, fin, host, trace >>

\* The catch block: the failure is recorded as a warning and finalize is called.
Catch ==
  /\ rs.pc = "catch"
  /\ FinalizeCall("catch", warn([ rs EXCEPT !.pc = "catchFinalize" ], "Session failed"), host, trace)
  /\ UNCHANGED << now, shadow, nEvents, nOutputs, sawOutput, differed, opts, cvars >>

\* await finalize() in the catch block settles: the error is rethrown and the
\* finally block clears the duration timer.
CatchSettled ==
  /\ rs.pc = "catchFinalize"
  /\ fin["catch"] \in {"returned", "returnedAtOnce", "threw"}
  /\ rs' = [ rs EXCEPT !.pc = "rejected",
                       !.durationTimer = IF @ = "pending" THEN "cleared" ELSE @ ]
  /\ UNCHANGED << tvars, opts, cvars, fin, host, trace >>

\* The clock advances while a timer of the session's tracker is pending.
SessionTick ==
  /\ rs.tracker
  /\ ~ended
  /\ now < MaxTime
  /\ tracker.timers # {}
  /\ \A h \in tracker.timers : h.due > now
  /\ now' = now + 1
  /\ UNCHANGED << tracker, shadow, nEvents, nOutputs, sawOutput, differed, ended, svars, cvars >>

\* The option sets explored.
SessionOptions ==
  [ disableMcps : BOOLEAN, correlateJsonl : BOOLEAN, turnHotkey : {"alt+t", "off"},
    isClaude : BOOLEAN, durationMs : BOOLEAN ]



\* A JsonlTracker that has not been created.
NoJsonlTracker ==
  [ allowReadForSelection |-> FALSE, overridePath |-> Undefined, projectDir |-> FALSE,
    activePath |-> Undefined, activePathSha256 |-> Undefined, samples |-> << >>,
    files |-> << >>, ops |-> {}, scanned |-> << >>, selections |-> 0, picked |-> Undefined,
    result |-> Undefined, queries |-> 0, turns |-> 0, changes |-> 0 ]

\* No call of correlateJsonlToTurns.
NoCorrelation ==
  [ turns |-> << >>, endedAtMsEpoch |-> Undefined, log |-> << >>,
    how |-> "none", other |-> << >>, result |-> Undefined, otherResult |-> Undefined ]

\* No `mark` invocation yet: markers.jsonl is empty and nothing was emitted.
NoMarks == [ calls |-> << >>, lines |-> << >>, consumed |-> 0, events |-> << >> ]

\* ---------------------------------------------------------------- startProcessMonitor

\* The monitor's closure variables (stopped, inFlight), the interval timer,
\* the probes whose tick body is suspended at an await, and what the monitor
\* has done so far: the ProcessSample values handed to onSample, the number
\* of onExit calls, the number of tick calls, and the number of tick calls
\* made when stopped was already set.
NoMonitor ==
  [ stopped |-> FALSE, inFlight |-> FALSE, timer |-> "none", linux |-> FALSE,
    probes |-> {}, samples |-> << >>, onExit |-> 0, ticks |-> 0, ticksAfterStop |-> 0 ]

\* Variant: a tick only looks at the stopped flag.
tickReturnsAtOnceStoppedOnly(m) == m.stopped

\* if (stopped || inFlight) return;
tickReturnsAtOnce(m) == m.stopped \/ m.inFlight

\* tick(), up to its first await: a tick that does not return at once sets
\* inFlight, reads the clock and starts pidusage.
tick(m, nowMs) ==
  LET called == [ m EXCEPT !.ticks = @ + 1,
                            !.ticksAfterStop = IF m.stopped THEN @ + 1 ELSE @ ]
  IN IF tickReturnsAtOnce(m)
     THEN called
     ELSE [ called EXCEPT !.inFlight = TRUE,
                          !.probes = @ \cup { [ n |-> called.ticks, tMs |-> nowMs, await |-> "pidusage" ] } ]

\* The finally block of tick: the sample is handed to onSample and inFlight
\* is reset.
tickFinally(m, probe, error) ==
  [ m EXCEPT !.probes = @ \ { probe },
             !.samples = Append(@, [ tMs |-> probe.tMs, error |-> error ]),
             !.inFlight = FALSE ]

\* Variant: the catch block calls onExit but leaves the monitor running.
tickCatchKeepsRunning(m) == [ m EXCEPT !.onExit = @ + 1 ]

\* The catch block of tick: stopped = true; opts.onExit?.();
tickCatch(m) == [ m EXCEPT !.stopped = TRUE, !.onExit = @ + 1 ]

\* stop() of the object startProcessMonitor returns.
stop(m) == [ m EXCEPT !.stopped = TRUE, !.timer = "cleared" ]

\* startProcessMonitor(opts) has returned: the interval is set and the
\* initial tick is waiting for pidusage.
StartedMonitor(linux, nowMs) ==
  tick([ NoMonitor EXCEPT !.timer = "set", !.linux = linux ], nowMs)

\* The interval timer calls tick.
IntervalTick ==
  /\ sampler.timer = "set"
  /\ sampler.ticks < MaxTicks
  /\ sampler' = tick(sampler, now)
  /\ UNCHANGED << tvars, svars, exceptSampler >>

\* await pidusageAsync(pid) settles: on success the tick goes on to
\* collectLinuxExtras on Linux and to the finally block elsewhere; on failure
\* it runs the catch block and the finally block.
PidusageSettles ==
  /\ \E probe \in sampler.probes, ok \in BOOLEAN :
       /\ probe.await = "pidusage"
       /\ sampler' = IF ~ok THEN tickFinally(tickCatch(sampler), probe, TRUE)
                     ELSE IF sampler.linux
                     THEN [ sampler EXCEPT !.probes = (@ \ { probe })
                                              \cup { [ probe EXCEPT !.await = "collectLinuxExtras" ] } ]
                     ELSE tickFinally(sampler, probe, FALSE)
  /\ UNCHANGED << tvars, svars, exceptSampler >>

\* await collectLinuxExtras(pid) settles; it swallows its own I/O errors.
LinuxExtrasSettle ==
  /\ \E probe \in sampler.probes :
       /\ probe.await = "collectLinuxExtras"
       /\ sampler' = tickFinally(sampler, probe, FALSE)
  /\ UNCHANGED << tvars, svars, exceptSampler >>

\* finalize calls monitor.stop().
MonitorStop ==
  /\ sampler.timer = "set"
  /\ sampler' = stop(sampler)
  /\ UNCHANGED << tvars, svars, exceptSampler >>

\* The monotonic clock advances.
MonitorClock ==
  /\ now < MaxTime
  /\ now' = now + 1
  /\ UNCHANGED << tracker, shadow, nEvents, nOutputs, sawOutput, differed, ended, svars, cvars >>

\* ---------------------------------------------------------------- startMarkerWatcher

\* The bytes of markers.jsonl: a marker line is the two bytes of an empty
\* JSON object followed by a newline.
MarkerLineBytes == << "{", "}", "NL" >>

\* What one append by a sibling `mark` invocation makes visible: a whole
\* line, or the line in two parts.
MarkerAppends == { MarkerLineBytes, << "{" >>, << "}", "NL" >> }

\* The watcher's closure variables (stopped, lastSize, inFlight), the
\* interval timer, the suspended tick bodies, markers.jsonl, and what the
\* watcher has done: the reads made (position and bytes read), the markers
\* handed to onMarker (by the file offset of their line) and the tick calls.
NoWatcher ==
  [ stopped |-> FALSE, inFlight |-> FALSE, lastSize |-> 0, timer |-> "none",
    ticking |-> {}, file |-> << >>, reads |-> << >>, markers |-> << >>, ticks |-> 0 ]

\* Variant: the watcher's tick only looks at the stopped flag.
watcherTickReturnsAtOnceStoppedOnly(w) == w.stopped

\* if (stopped || inFlight) return;
watcherTickReturnsAtOnce(w) == w.stopped \/ w.inFlight

\* tick() of the watcher up to its first await, fs.stat.
watcherTick(w) ==
  IF watcherTickReturnsAtOnce(w)
  THEN [ w EXCEPT !.ticks = @ + 1 ]
  ELSE [ w EXCEPT !.ticks = @ + 1,
                  !.inFlight = TRUE,
                  !.ticking = @ \cup { [ n |-> w.ticks + 1, await |-> "stat", size |-> 0 ] } ]

\* The outer finally block of the watcher's tick.
watcherTickFinally(w, tk) ==
  [ w EXCEPT !.ticking = @ \ { tk }, !.inFlight = FALSE ]

\* A tick body moves on to its next await.
watcherTickAwait(w, tk, await, size) ==
  [ w EXCEPT !.ticking = (@ \ { tk }) \cup { [ tk EXCEPT !.await = await, !.size = size ] } ]

\* The offsets at which text.split("\n") of the bytes read from position
\* `from` (bytesRead of them) yields a piece that parses as a marker line.
ParsedMarkers(file, from, bytesRead) ==
  { k \in (from + 1)..(from + bytesRead - 1) :
      /\ file[k] = "{" /\ file[k + 1] = "}"
      /\ (k = from + 1 \/ file[k - 1] = "NL")
      /\ (k + 1 = from + bytesRead \/ file[k + 2] = "NL") }

RECURSIVE Ascending(_)
\* The elements of a set of numbers in ascending order.
Ascending(S) ==
  IF S = {} THEN << >>
  ELSE LET least == CHOOSE x \in S : \A y \in S : x <= y
       IN << least >> \o Ascending(S \ { least })

\* Variant: the cursor stays where it was after a read.
lastSizeKept(w, bytesRead) == w.lastSize

\* lastSize += bytesRead;
lastSizeAfterRead(w, bytesRead) == w.lastSize + bytesRead

\* The body of the watcher's tick after fd.read returned bytesRead bytes.
watcherRead(w, bytesRead) ==
  [ w EXCEPT !.lastSize = lastSizeAfterRead(w, bytesRead),
             !.reads = Append(@, [ from |-> w.lastSize, n |-> bytesRead ]),
             !.markers = @ \o Ascending(ParsedMarkers(w.file, w.lastSize, bytesRead)) ]

\* startMarkerWatcher(opts) has returned: the interval is set and the
\* initial tick is waiting for fs.stat; runSession has created the file empty.
StartedWatcher == watcherTick([ NoWatcher EXCEPT !.timer = "set" ])

\* A sibling `mark` invocation appends to markers.jsonl.
AppendMarkers ==
  /\ \E bytes \in MarkerAppends :
       /\ Len(watcher.file) + Len(bytes) <= MaxFileBytes
       /\ watcher' = [ watcher EXCEPT !.file = @ \o bytes ]
  /\ UNCHANGED << tvars, svars, exceptWatcher >>

\* The interval timer calls the watcher's tick.
WatcherTick ==
  /\ watcher.timer = "set"
  /\ watcher.ticks < MaxWatcherTicks
  /\ watcher' = watcherTick(watcher)
  /\ UNCHANGED << tvars, svars, exceptWatcher >>

\* await fs.stat settles: a failure is swallowed; a size not beyond the
\* cursor ends the tick; otherwise the file is opened.
WatcherStatSettles ==
  /\ \E tk \in watcher.ticking, ok \in BOOLEAN :
       /\ tk.await = "stat"
       /\ watcher' = IF ~ok \/ Len(watcher.file) <= watcher.lastSize
                     THEN watcherTickFinally(watcher, tk)
                     ELSE watcherTickAwait(watcher, tk, "open", Len(watcher.file))
  /\ UNCHANGED << tvars, svars, exceptWatcher >>

\* await fs.open settles.
WatcherOpenSettles ==
  /\ \E tk \in watcher.ticking, ok \in BOOLEAN :
       /\ tk.await = "open"
       /\ watcher' = IF ok THEN watcherTickAwait(watcher, tk, "read", tk.size)
                     ELSE watcherTickFinally(watcher, tk)
  /\ UNCHANGED << tvars, svars, exceptWatcher >>

\* await fd.read(buf, 0, toRead, lastSize) settles: it fails, or returns up
\* to toRead bytes; the tick goes on to fd.close either way.
WatcherReadSettles ==
  /\ \E tk \in watcher.ticking, ok \in BOOLEAN :
       /\ tk.await = "read"
       /\ IF ok
          THEN \E bytesRead \in 0..(tk.size - watcher.lastSize) :
                 watcher' = watcherTickAwait(watcherRead(watcher, bytesRead), tk, "close", tk.size)
          ELSE watcher' = watcherTickAwait(watcher, tk, "close", tk.size)
  /\ UNCHANGED << tvars, svars, exceptWatcher >>

\* await fd.close() settles; a failure is swallowed.
WatcherCloseSettles ==
  /\ \E tk \in watcher.ticking :
       /\ tk.await = "close"
       /\ watcher' = watcherTickFinally(watcher, tk)
  /\ UNCHANGED << tvars, svars, exceptWatcher >>

\* finalize calls markerWatcher.stop().
WatcherStop ==
  /\ watcher.timer = "set"
  /\ watcher' = [ watcher EXCEPT !.stopped = TRUE, !.timer = "cleared" ]
  /\ UNCHANGED << tvars, svars, exceptWatcher >>

WatcherInit ==
  /\ now = 0
  /\ tracker = NewTracker
  /\ shadow = NewTracker
  /\ nEvents = 0
  /\ nOutputs = 0
  /\ sawOutput = {}
  /\ differed = FALSE
  /\ ended = FALSE
  /\ opts = NoOptions
  /\ rs = NotRunning
  /\ fin = [ k \in Callers |-> "none" ]
  /\ host = NewHost
  /\ trace = << >>
  /\ sampler = NoMonitor
  /\ watcher = StartedWatcher
  /\ jsonl = NoJsonlTracker
  /\ corr = NoCorrelation
  /\ marks = NoMarks

WatcherNext ==
  \/ AppendMarkers
  \/ WatcherTick
  \/ WatcherStatSettles
  \/ WatcherOpenSettles
  \/ WatcherReadSettles
  \/ WatcherCloseSettles
  \/ WatcherStop

WatcherSpec == WatcherInit /\ [][WatcherNext]_vars

\* A sibling `mark` invocation appends one whole marker line to markers.jsonl
\* while the session runs, before finalize has called stop().
AppendMarkerLine ==
  /\ watcher.timer = "set"
  /\ Len(watcher.file) + Len(MarkerLineBytes) <= MaxFileBytes
  /\ watcher' = [ watcher EXCEPT !.file = @ \o MarkerLineBytes ]
  /\ UNCHANGED << tvars, svars, exceptWatcher >>

MarkerBundleNext ==
  \/ AppendMarkerLine
  \/ WatcherTick
  \/ WatcherStatSettles
  \/ WatcherOpenSettles
  \/ WatcherReadSettles
  \/ WatcherCloseSettles
  \/ WatcherStop

MarkerBundleSpec == WatcherInit /\ [][MarkerBundleNext]_vars

\* ---------------------------------------------------------------- sessions sharing a state directory

\* The profiler sessions that share one state directory.
Sessions == 1..MaxSessions

\* The state directory and the processes using it: the active-session
\* pointer file (absent, or naming the session whose markersPath it holds),
\* each session's position (not started, pointer written and running,
\* finalize waiting for clearActiveSession, pointer deletion done), and the
\* sessions whose markers file a `mark` has appended to, with whether the
\* session was still running then.
NewStateDir ==
  [ child |-> "none", exitCode |-> 0, exitCbs |-> {}, listeners |-> {}, rawMode |-> FALSE,
    pointer |-> Undefined, pointerFault |-> FALSE, dataJson |-> << >>, reportHtml |-> 0,
    stdin |-> << >>, io |-> << >>,
    pcs |-> [ s \in Sessions |-> "notStarted" ],
    marked |-> << >> ]

\* The sessions that have written the pointer and have not reached their own
\* deletion of it.
RunningSessions == { s \in Sessions : host.pcs[s] \in {"running", "clearActiveSession"} }

\* runSession of session s: writeActiveSession writes the pointer file with
\* the session's markersPath, whatever the file held.
SessionWritesPointer ==
  /\ \E s \in Sessions :
       /\ host.pcs[s] = "notStarted"
       /\ host' = [ host EXCEPT !.pointer = Some(s), !.pcs[s] = "running" ]
  /\ UNCHANGED << tvars, opts, cvars, rs, fin, trace >>

\* finalize of session s runs its synchronous part and calls
\* clearActiveSession.
SessionFinalizes ==
  /\ \E s \in Sessions :
       /\ host.pcs[s] = "running"
       /\ host' = [ host EXCEPT !.pcs[s] = "clearActiveSession" ]
  /\ UNCHANGED << tvars, opts, cvars, rs, fin, trace >>

\* clearActiveSession of session s: fs.rm with force removes the pointer
\* file, whatever it holds.
SessionClearsPointer ==
  /\ \E s \in Sessions :
       /\ host.pcs[s] = "clearActiveSession"
       /\ host' = [ host EXCEPT !.pointer = Undefined, !.pcs[s] = "cleared" ]
  /\ UNCHANGED << tvars, opts, cvars, rs, fin, trace >>

\* A `mark` invocation reads the pointer and appends to the markers file it
\* names; without a pointer file readActiveSession throws.
MarkWithPointer ==
  /\ Len(host.marked) < MaxMarks
  /\ host.pointer # Undefined
  /\ host' = [ host EXCEPT !.marked = Append(@, [ session |-> host.pointer[1],
                                                  live |-> host.pointer[1] \in RunningSessions ]) ]
  /\ UNCHANGED << tvars, opts, cvars, rs, fin, trace >>

StateDirInit ==
  /\ now = 0
  /\ tracker = NewTracker
  /\ shadow = NewTracker
  /\ nEvents = 0
  /\ nOutputs = 0
  /\ sawOutput = {}
  /\ differed = FALSE
  /\ ended = FALSE
  /\ opts = NoOptions
  /\ rs = NotRunning
  /\ fin = [ k \in Callers |-> "none" ]
  /\ host = NewStateDir
  /\ trace = << >>
  /\ sampler = NoMonitor
  /\ watcher = NoWatcher
  /\ jsonl = NoJsonlTracker
  /\ corr = NoCorrelation
  /\ marks = NoMarks

StateDirNext ==
  \/ SessionWritesPointer
  \/ SessionFinalizes
  \/ SessionClearsPointer
  \/ MarkWithPointer

StateDirSpec == StateDirInit /\ [][StateDirNext]_vars

\* ---------------------------------------------------------------- JsonlTracker

\* opts.startedAtMsEpoch, and the modification times explored: just too old
\* to be a candidate, exactly at the limit, and after the session started.
startedAtMsEpoch == 20000
Mtimes == { 9999, 10000, 21000 }

\* What a .jsonl file holds: a file-history snapshot record only, or a
\* snapshot record and a user record carrying a timestamp inside the session.
Contents == { "snapshot", "conversation" }

\* The .jsonl files the scan of the projects directory meets, as records of
\* path, whether the file lies in the project directory of cwd, what stat
\* reports and what the file holds.
LogFile(path) ==
  [ p : { path }, inProject : BOOLEAN, mtimeMs : Mtimes, sizeBytes : 0..MaxLogSize,
    content : Contents ]

RECURSIVE Listings(_)
\* The directory listings of n files, in readdir order.
Listings(n) ==
  IF n = 0 THEN { << >> }
  ELSE { Append(l, f) : l \in Listings(n - 1), f \in LogFile(<< "log", n >>) }

\* The file opts.overridePath names, when it is given and exists.
OverrideFile ==
  [ p |-> << "override", 0 >>, inProject |-> FALSE, mtimeMs |-> 21000, sizeBytes |-> 1,
    content |-> "conversation" ]

\* sha256Hex(path): the hash is kept symbolic.
sha256Hex(path) == << "sha256", path >>

\* new JsonlTracker(opts) over the given files. projectDir tells whether cwd
\* was given and its encoded project directory exists. ops collects the file
\* operations made; scanned, selections and picked record the files found
\* under the root the last run of the selection policy took its candidates
\* from, the number of runs and the path the last run chose; result is what
\* the last query returned.
NewJsonlTracker(allowRead, overridePath, projectDir, files) ==
  [ NoJsonlTracker EXCEPT !.allowReadForSelection = allowRead,
                          !.overridePath = overridePath,
                          !.projectDir = projectDir,
                          !.files = files ]

\* Variant: the tracker never finds a path it looks for.
pathExistsNever(files, path) == FALSE

\* pathExists(p) for the path of a log file.
pathExists(files, path) == \E i \in 1..Len(files) : files[i].p = path

\* The file with the given path.
FileAt(files, path) == files[CHOOSE i \in 1..Len(files) : files[i].p = path]

\* Variant: every .jsonl file met is a candidate, whatever its mtime.
findJsonlCandidatesOfAnyAge(found, sinceMsEpoch) ==
  [ i \in 1..Len(found) |->
      [ p |-> found[i].p, mtimeMs |-> found[i].mtimeMs, sizeBytes |-> found[i].sizeBytes ] ]

\* findRecentJsonlCandidates over the files found under a root: the files
\* whose mtime is not before sinceMsEpoch, in scan order.
findRecentJsonlCandidates(found, sinceMsEpoch) ==
  LET recent == SelectSeq(found, LAMBDA f : f.mtimeMs >= sinceMsEpoch)
  IN [ i \in 1..Len(recent) |->
         [ p |-> recent[i].p, mtimeMs |-> recent[i].mtimeMs, sizeBytes |-> recent[i].sizeBytes ] ]

\* Variant: the more recently modified candidate is preferred.
replacesBestByMtime(c, best) == c.mtimeMs > best.mtimeMs

\* The two tests of pickLargestCandidate's loop that make c the best so far.
replacesBest(c, best) ==
  \/ c.sizeBytes > best.sizeBytes
  \/ (c.sizeBytes = best.sizeBytes /\ c.mtimeMs > best.mtimeMs)

RECURSIVE pickLargestFrom(_, _)
\* pickLargestCandidate's loop, with `best` the best so far.
pickLargestFrom(best, candidates) ==
  IF candidates = << >> THEN best
  ELSE LET c == Head(candidates)
       IN pickLargestFrom(IF best = Undefined THEN Some(c)
                          ELSE IF replacesBest(c, best[1]) THEN Some(c)
                          ELSE best,
                          Tail(candidates))

pickLargestCandidate(candidates) == pickLargestFrom(Undefined, candidates)

\* Math.min
Min(a, b) == IF a <= b THEN a ELSE b

\* The counts scoreJsonlCandidateForConversation derives from the lines read:
\* parsed records, user records, assistant records, records with a timestamp
\* and records with a timestamp inside the window. A file that is neither a
\* conversation nor a snapshot holds no line that parses.
LineCounts(content) ==
  IF content = "conversation"
  THEN [ parsed |-> 2, user |-> 1, assistant |-> 0, timestamp |-> 1, inWindow |-> 1 ]
  ELSE IF content = "snapshot"
  THEN [ parsed |-> 1, user |-> 0, assistant |-> 0, timestamp |-> 0, inWindow |-> 0 ]
  ELSE [ parsed |-> 0, user |-> 0, assistant |-> 0, timestamp |-> 0, inWindow |-> 0 ]

\* scoreJsonlCandidateForConversation(c, startedAtMsEpoch), which opens and
\* reads the candidate unless its size is 0.
scoreJsonlCandidateForConversation(files, c) ==
  IF c.sizeBytes <= 0 THEN 0
  ELSE LET n == LineCounts(FileAt(files, c.p).content)
       IN (IF n.user > 0 THEN 1000000 ELSE 0)
            + (IF n.assistant > 0 THEN 500000 ELSE 0)
            + (IF n.timestamp > 0 THEN 100000 ELSE 0)
            + (IF n.inWindow > 0 THEN 200000 ELSE 0)
            + Min(n.user, 500) * 10000
            + Min(n.assistant, 500) * 5000
            + Min(n.timestamp, 5000) * 10
            + Min(n.parsed, 2000)
            + Min(c.sizeBytes \div 1024, 50000)

RECURSIVE sortByMtimeDesc(_)
\* [...candidates].sort((a, b) => b.mtimeMs - a.mtimeMs), a stable sort.
sortByMtimeDesc(candidates) ==
  IF candidates = << >> THEN << >>
  ELSE LET first == CHOOSE i \in 1..Len(candidates) :
                      /\ \A j \in 1..Len(candidates) : candidates[j].mtimeMs <= candidates[i].mtimeMs
                      /\ \A j \in 1..(i - 1) : candidates[j].mtimeMs < candidates[i].mtimeMs
           rest == [ k \in 1..(Len(candidates) - 1) |->
                       IF k < first THEN candidates[k] ELSE candidates[k + 1] ]
       IN << candidates[first] >> \o sortByMtimeDesc(rest)

RECURSIVE pickBestFrom(_, _, _)
\* pickBestCandidateForConversation's loop, with `best` the best so far.
pickBestFrom(files, best, toScore) ==
  IF toScore = << >> THEN best
  ELSE LET c == Head(toScore)
           score == scoreJsonlCandidateForConversation(files, c)
       IN pickBestFrom(files,
                       IF \/ best = Undefined
                          \/ score > best[1].score
                          \/ (score = best[1].score /\ c.sizeBytes > best[1].c.sizeBytes)
                       THEN Some([ c |-> c, score |-> score ])
                       ELSE best,
                       Tail(toScore))

pickBestCandidateForConversation(files, candidates) ==
  LET sorted == sortByMtimeDesc(candidates)
      toScore == SubSeq(sorted, 1, Min(25, Len(sorted)))
      best == pickBestFrom(files, Undefined, toScore)
  IN IF best # Undefined THEN Some(best[1].c) ELSE pickLargestCandidate(candidates)

\* The file operations of scoring: every scored candidate of positive size
\* is opened, read and closed.
ScoringOps(candidates) ==
  LET toScore == SubSeq(sortByMtimeDesc(candidates), 1, Min(25, Len(candidates)))
  IN UNION { { [ op |-> o, p |-> toScore[i].p ] : o \in {"open", "read", "close"} } :
             i \in { k \in 1..Len(toScore) : toScore[k].sizeBytes > 0 } }

\* A file operation on a path.
Op(op, path) == [ op |-> op, p |-> path ]

\* The stat calls findRecentJsonlCandidates makes on the files it meets.
StatOps(found) == { Op("stat", found[i].p) : i \in 1..Len(found) }

\* Variant: the policy reads the candidates whatever allowReadForSelection says.
readsForSelectionAlways(e) == TRUE

\* this.allowReadForSelection
readsForSelection(e) == e.allowReadForSelection

\* ensureActivePath(): a selected path that still exists is returned; an
\* override path is used iff it exists; otherwise the candidates come from
\* the project directory of cwd or, when that gives none, from the projects
\* directory, and the policy picks one of them.
ensureActivePath(e) ==
  IF e.activePath # Undefined /\ pathExists(e.files, e.activePath[1])
  THEN [ e EXCEPT !.ops = @ \cup { Op("stat", e.activePath[1]) }, !.result = e.activePath ]
  ELSE LET e0 == IF e.activePath # Undefined
                 THEN [ e EXCEPT !.ops = @ \cup { Op("stat", e.activePath[1]) } ] ELSE e
       IN IF e0.overridePath # Undefined
          THEN LET e1 == [ e0 EXCEPT !.ops = @ \cup { Op("stat", e0.overridePath[1]) } ]
               IN IF pathExists(e1.files, e1.overridePath[1])
                  THEN [ e1 EXCEPT !.activePath = e1.overridePath,
                                   !.activePathSha256 = Some(sha256Hex(e1.overridePath[1])),
                                   !.result = e1.overridePath ]
                  ELSE [ e1 EXCEPT !.result = Undefined ]
          ELSE LET inProject == SelectSeq(e0.files, LAMBDA f : f.inProject)
                   sinceMsEpoch == startedAtMsEpoch - 10000
                   first == IF e0.projectDir
                            THEN findRecentJsonlCandidates(inProject, sinceMsEpoch) ELSE << >>
                   found == IF first # << >> THEN inProject ELSE e0.files
                   candidates == findRecentJsonlCandidates(found, sinceMsEpoch)
                   ops == { Op("stat", << "projectsDir", 0 >>) }
                            \cup (IF e0.projectDir
                                  THEN { Op("stat", << "projectDir", 0 >>), Op("readdir", << "projectDir", 0 >>) }
                                         \cup StatOps(inProject)
                                  ELSE {})
                            \cup (IF first = << >>
                                  THEN { Op("readdir", << "projectsDir", 0 >>) } \cup StatOps(e0.files)
                                  ELSE {})
                   best == IF readsForSelection(e0)
                           THEN pickBestCandidateForConversation(e0.files, candidates)
                           ELSE pickLargestCandidate(candidates)
                   e1 == [ e0 EXCEPT !.ops = @ \cup ops
                                           \cup (IF readsForSelection(e0) THEN ScoringOps(candidates) ELSE {}),
                                     !.scanned = found,
                                     !.selections = @ + 1 ]
               IN IF best = Undefined
                  THEN [ e1 EXCEPT !.picked = Undefined, !.result = Undefined ]
                  ELSE [ e1 EXCEPT !.activePath = Some(best[1].p),
                                   !.activePathSha256 = Some(sha256Hex(best[1].p)),
                                   !.picked = Some(best[1].p),
                                   !.result = Some(best[1].p) ]

\* recordOnTurn(turn): the size of the active log is sampled.
recordOnTurn(e, turn) ==
  LET e1 == ensureActivePath(e)
  IN IF e1.result = Undefined THEN e1
     ELSE [ e1 EXCEPT !.ops = @ \cup { Op("stat", e1.result[1]) },
                      !.samples = Append(@, [ turnIndex |-> turn.index, tMs |-> turn.tMs,
                                              sizeBytes |-> FileAt(e1.files, e1.result[1]).sizeBytes ]) ]

\* getActivePathUnsafe() is called.
GetActivePathUnsafe ==
  /\ jsonl.queries < MaxQueries
  /\ jsonl' = [ ensureActivePath(jsonl) EXCEPT !.queries = @ + 1 ]
  /\ UNCHANGED << tvars, svars, exceptJsonl >>

\* The tracker's onTurn callback calls recordOnTurn with the next turn.
RecordOnTurn ==
  /\ jsonl.queries < MaxQueries
  /\ LET turn == [ index |-> jsonl.turns + 1, tMs |-> jsonl.turns + 1 ]
     IN jsonl' = [ recordOnTurn(jsonl, turn) EXCEPT !.queries = @ + 1, !.turns = @ + 1 ]
  /\ UNCHANGED << tvars, svars, exceptJsonl >>

\* The target process appends to one of the files.
LogGrows ==
  /\ jsonl.changes < MaxLogChanges
  /\ \E i \in 1..Len(jsonl.files) :
       /\ jsonl.files[i].sizeBytes < MaxLogSize
       /\ jsonl' = [ jsonl EXCEPT !.files[i].sizeBytes = @ + 1,
                                  !.files[i].mtimeMs = 21000,
                                  !.changes = @ + 1 ]
  /\ UNCHANGED << tvars, svars, exceptJsonl >>

\* One of the files is deleted.
LogRemoved ==
  /\ jsonl.changes < MaxLogChanges
  /\ \E i \in 1..Len(jsonl.files) :
       jsonl' = [ jsonl EXCEPT !.files = [ k \in 1..(Len(@) - 1) |-> IF k < i THEN @[k] ELSE @[k + 1] ],
                              !.changes = @ + 1 ]
  /\ UNCHANGED << tvars, svars, exceptJsonl >>

\* The trackers explored: without override path over up to MaxLogFiles
\* files, and with an override path that exists or does not.
JsonlTrackers ==
  { NewJsonlTracker(allowRead, Undefined, projectDir, files) :
      allowRead \in BOOLEAN, projectDir \in BOOLEAN,
      files \in UNION { Listings(n) : n \in 0..MaxLogFiles } }
    \cup { NewJsonlTracker(allowRead, Some(OverrideFile.p), FALSE, files) :
             allowRead \in BOOLEAN, files \in { << >>, << OverrideFile >> } }

JsonlInit ==
  /\ now = 0
  /\ tracker = NewTracker
  /\ shadow = NewTracker
  /\ nEvents = 0
  /\ nOutputs = 0
  /\ sawOutput = {}
  /\ differed = FALSE
  /\ ended = FALSE
  /\ opts = NoOptions
  /\ rs = NotRunning
  /\ fin = [ k \in Callers |-> "none" ]
  /\ host = NewHost
  /\ trace = << >>
  /\ sampler = NoMonitor
  /\ watcher = NoWatcher
  /\ jsonl \in { e \in JsonlTrackers :
                    e.projectDir \/ \A i \in 1..Len(e.files) : ~e.files[i].inProject }
  /\ corr = NoCorrelation
  /\ marks = NoMarks

JsonlNext ==
  \/ GetActivePathUnsafe
  \/ RecordOnTurn
  \/ LogGrows
  \/ LogRemoved

JsonlSpec == JsonlInit /\ [][JsonlNext]_vars

\* A projects directory with more files than pickBestCandidateForConversation
\* scores: 25 files modified after the session started, all of the same size
\* and content, and one file modified earlier, within the ten seconds before
\* the start.
ManyFiles(size, content, olderSize, olderContent) ==
  [ i \in 1..26 |->
      IF i <= 25
      THEN [ p |-> << "log", i >>, inProject |-> FALSE, mtimeMs |-> 21000,
             sizeBytes |-> size, content |-> content ]
      ELSE [ p |-> << "log", i >>, inProject |-> FALSE, mtimeMs |-> 10000,
             sizeBytes |-> olderSize, content |-> olderContent ] ]

ManyCandidatesInit ==
  /\ now = 0
  /\ tracker = NewTracker
  /\ shadow = NewTracker
  /\ nEvents = 0
  /\ nOutputs = 0
  /\ sawOutput = {}
  /\ differed = FALSE
  /\ ended = FALSE
  /\ opts = NoOptions
  /\ rs = NotRunning
  /\ fin = [ k \in Callers |-> "none" ]
  /\ host = NewHost
  /\ trace = << >>
  /\ sampler = NoMonitor
  /\ watcher = NoWatcher
  /\ jsonl \in { NewJsonlTracker(allowRead, Undefined, FALSE, ManyFiles(size, content, olderSize, olderContent)) :
                   allowRead \in BOOLEAN,
                   size \in 0..MaxLogSize, olderSize \in 0..MaxLogSize,
                   content \in { "conversation", "blank" },
                   olderContent \in { "conversation", "blank" } }
  /\ corr = NoCorrelation
  /\ marks = NoMarks

ManyCandidatesNext ==
  \/ GetActivePathUnsafe
  \/ RecordOnTurn

ManyCandidatesSpec == ManyCandidatesInit /\ [][ManyCandidatesNext]_vars

\* ---------------------------------------------------------------- JsonlTracker, call by call

\* The tracker followed through the awaits of its async methods, without an
\* override path and with one log under the projects directory: the tracker's
\* activePath and samples, the log as the file system holds it, the calls in
\* flight with the await each is suspended at, the turns emitted, the sizes
\* the stat calls returned, and what runSession's finalize has done with the
\* samples: session.jsonl.samples is the tracker's array itself, and
\* data.json holds what the array held when writeJson serialized it.
NewJsonlTrackerCalls(exists) ==
  [ activePath |-> Undefined,
    log |-> [ exists |-> exists, sizeBytes |-> 1 ],
    samples |-> << >>,
    calls |-> << >>,
    turns |-> 0,
    changes |-> 0,
    statOk |-> {},
    session |-> "running",
    dataJson |-> Undefined ]

\* The awaits of ensureActivePath and recordOnTurn a call can be suspended at.
\* A call is between "scan" and its resumption while findRecentJsonlCandidates
\* and the pick run.
CallPcs == {"pathExists(activePath)", "pathExists(projectsDir)", "scan", "stat", "returned"}

\* The synchronous start of ensureActivePath: with an activePath its
\* existence is awaited, otherwise that of the projects directory.
ensureActivePathEntry(e) ==
  IF e.activePath # Undefined THEN "pathExists(activePath)" ELSE "pathExists(projectsDir)"

\* ensureActivePath has returned p to the call: recordOnTurn returns on
\* undefined and awaits stat(p) otherwise; getActivePathUnsafe returns.
AfterEnsureActivePath(c, p) ==
  IF c.kind = "recordOnTurn" /\ p # Undefined THEN [ c EXCEPT !.pc = "stat" ]
  ELSE [ c EXCEPT !.pc = "returned" ]

\* The tracker's onTurn callback: the turn is pushed and recordOnTurn is
\* called and not awaited.
RecordOnTurnCalled ==
  /\ jsonl.session = "running"
  /\ Len(jsonl.calls) < MaxQueries
  /\ LET turn == [ index |-> jsonl.turns + 1, tMs |-> jsonl.turns + 1 ]
     IN jsonl' = [ jsonl EXCEPT !.turns = @ + 1,
                                !.calls = Append(@, [ kind |-> "recordOnTurn", turn |-> turn,
                                                      pc |-> ensureActivePathEntry(jsonl) ]) ]
  /\ UNCHANGED << tvars, svars, exceptJsonl >>

\* getActivePathUnsafe() is called.
GetActivePathUnsafeCalled ==
  /\ Len(jsonl.calls) < MaxQueries
  /\ jsonl' = [ jsonl EXCEPT !.calls = Append(@, [ kind |-> "getActivePathUnsafe",
                                                   turn |-> [ index |-> 0, tMs |-> 0 ],
                                                   pc |-> ensureActivePathEntry(jsonl) ]) ]
  /\ UNCHANGED << tvars, svars, exceptJsonl >>

\* pathExists(this.activePath) settles: an existing path is returned,
\* otherwise the call goes on to the projects directory.
ActivePathChecked ==
  /\ \E k \in 1..Len(jsonl.calls) :
       /\ jsonl.calls[k].pc = "pathExists(activePath)"
       /\ jsonl' = [ jsonl EXCEPT !.calls[k] =
                       IF jsonl.log.exists THEN AfterEnsureActivePath(@, jsonl.activePath)
                       ELSE [ @ EXCEPT !.pc = "pathExists(projectsDir)" ] ]
  /\ UNCHANGED << tvars, svars, exceptJsonl >>

\* pathExists(projectsDir) settles and the call starts to scan for
\* candidates.
ProjectsDirChecked ==
  /\ \E k \in 1..Len(jsonl.calls) :
       /\ jsonl.calls[k].pc = "pathExists(projectsDir)"
       /\ jsonl' = [ jsonl EXCEPT !.calls[k].pc = "scan" ]
  /\ UNCHANGED << tvars, svars, exceptJsonl >>

\* The scan and the pick of a call are over: without a candidate undefined
\* is returned, otherwise the pick becomes the activePath and is returned.
CandidatePicked ==
  /\ \E k \in 1..Len(jsonl.calls) :
       /\ jsonl.calls[k].pc = "scan"
       /\ jsonl' = IF jsonl.log.exists
                   THEN [ jsonl EXCEPT !.activePath = Some("log"),
                                       !.calls[k] = AfterEnsureActivePath(@, Some("log")) ]
                   ELSE [ jsonl EXCEPT !.calls[k] = AfterEnsureActivePath(@, Undefined) ]
  /\ UNCHANGED << tvars, svars, exceptJsonl >>

\* stat(p) of recordOnTurn settles: on success the sample is pushed, a failure
\* is ignored.
StatSettled ==
  /\ \E k \in 1..Len(jsonl.calls) :
       /\ jsonl.calls[k].pc = "stat"
       /\ LET turn == jsonl.calls[k].turn
              sample == [ turnIndex |-> turn.index, tMs |-> turn.tMs,
                          sizeBytes |-> jsonl.log.sizeBytes ]
          IN jsonl' = IF jsonl.log.exists
                      THEN [ jsonl EXCEPT !.samples = Append(@, sample),
                                          !.statOk = @ \cup { sample },
                                          !.calls[k].pc = "returned" ]
                      ELSE [ jsonl EXCEPT !.calls[k].pc = "returned" ]
  /\ UNCHANGED << tvars, svars, exceptJsonl >>

\* The target process creates the log, appends to it, or the log is deleted.
LogChanged ==
  /\ jsonl.changes < MaxLogChanges
  /\ \E log \in { [ exists |-> ~jsonl.log.exists, sizeBytes |-> jsonl.log.sizeBytes ],
                  [ exists |-> jsonl.log.exists, sizeBytes |-> jsonl.log.sizeBytes + 1 ] } :
       /\ log.sizeBytes <= MaxLogSize
       /\ log.sizeBytes # jsonl.log.sizeBytes => jsonl.log.exists
       /\ jsonl' = [ jsonl EXCEPT !.log = log, !.changes = @ + 1 ]
  /\ UNCHANGED << tvars, svars, exceptJsonl >>

\* finalize, past its cleanup: session.jsonl.samples = jsonlTracker.getSamples().
\* No turn is emitted from here on.
SessionJsonlSet ==
  /\ jsonl.session = "running"
  /\ jsonl' = [ jsonl EXCEPT !.session = "finalizing" ]
  /\ UNCHANGED << tvars, svars, exceptJsonl >>

\* finalize, after the report was rendered: writeJson(dataPath, session)
\* serializes the samples the array holds now.
DataJsonWritten ==
  /\ jsonl.session = "finalizing"
  /\ jsonl' = [ jsonl EXCEPT !.session = "written", !.dataJson = Some(jsonl.samples) ]
  /\ UNCHANGED << tvars, svars, exceptJsonl >>

JsonlCallsInit ==
  /\ now = 0
  /\ tracker = NewTracker
  /\ shadow = NewTracker
  /\ nEvents = 0
  /\ nOutputs = 0
  /\ sawOutput = {}
  /\ differed = FALSE
  /\ ended = FALSE
  /\ opts = NoOptions
  /\ rs = NotRunning
  /\ fin = [ k \in Callers |-> "none" ]
  /\ host = NewHost
  /\ trace = << >>
  /\ sampler = NoMonitor
  /\ watcher = NoWatcher
  /\ jsonl \in { NewJsonlTrackerCalls(exists) : exists \in BOOLEAN }
  /\ corr = NoCorrelation
  /\ marks = NoMarks

JsonlCallsNext ==
  \/ RecordOnTurnCalled
  \/ GetActivePathUnsafeCalled
  \/ ActivePathChecked
  \/ ProjectsDirChecked
  \/ CandidatePicked
  \/ StatSettled
  \/ LogChanged
  \/ SessionJsonlSet
  \/ DataJsonWritten

JsonlCallsSpec == JsonlCallsInit /\ [][JsonlCallsNext]_vars

\* ---------------------------------------------------------------- correlateJsonlToTurns

\* A string is a sequence of characters. The explored logs carry these: a
\* prompt text, a tool name with surrounding blanks, a blank tool name and a
\* tool name of 121 characters.
PromptText == << "p", "w" >>
PaddedName == << " ", "r", "f", " " >>
BlankName == << " " >>
LongName == [ i \in 1..121 |-> "n" ]
TextType == << "t", "e", "x", "t" >>
ToolUseType == << "t", "o", "o", "l", "_", "u", "s", "e" >>

\* opts.turns: no turn, one turn, two turns.
TurnLists ==
  { << >>,
    << [ index |-> 1, tMs |-> 900 ] >>,
    << [ index |-> 1, tMs |-> 900 ], [ index |-> 2, tMs |-> 1000 ] >> }

\* opts.endedAtMsEpoch, when given.
EndedAtMsEpochs == { Undefined, Some(21500) }

\* Epochs of the records: before the window, within the first turn, within
\* the second turn, after the window.
Epochs == { 9999, 20950, 21000, 81501 }

\* One line of the log: whether JSON.parse accepts it, and the fields of the
\* parsed record the correlator looks at. role, type and message (the role
\* of the nested message) are strings when present; the correlator reads a
\* role only from a record without timestamp.
ContentValues ==
  { Undefined,
    [ kind |-> "string", value |-> PromptText ],
    [ kind |-> "array", items |-> << [ type |-> TextType, name |-> Some(PromptText) ],
                                     [ type |-> ToolUseType, name |-> Some(BlankName) ] >> ],
    [ kind |-> "array", items |-> << [ type |-> ToolUseType, name |-> Some(LongName) ] >> ] }

UsageValues == { Undefined, [ input_tokens |-> Some(10), output_tokens |-> Some(20) ] }

UnparsedLine ==
  [ json |-> FALSE, timestamp |-> Undefined, role |-> Undefined, type |-> Undefined,
    message |-> Undefined, tool_name |-> Undefined, content |-> Undefined, usage |-> Undefined ]

LogLines ==
  { UnparsedLine }
    \cup { [ json |-> TRUE, timestamp |-> ts, role |-> role, type |-> Undefined,
             message |-> Undefined, tool_name |-> tn, content |-> content, usage |-> usage ] :
             ts \in { Undefined }, role \in { Some("user"), Some("assistant") },
             tn \in { Undefined, Some(PaddedName) },
             content \in ContentValues, usage \in UsageValues }
    \cup { [ json |-> TRUE, timestamp |-> Some(ts), role |-> Some("assistant"),
             type |-> Undefined, message |-> Undefined, tool_name |-> tn,
             content |-> content, usage |-> usage ] :
             ts \in Epochs,
             tn \in { Undefined, Some(PaddedName) },
             content \in ContentValues, usage \in UsageValues }

\* The strings of a line, by field.
NameChars(optName) == IF optName = Undefined THEN 0 ELSE Len(optName[1])

RECURSIVE ItemChars(_)
ItemChars(items) ==
  IF items = << >> THEN 0
  ELSE Len(Head(items).type) + NameChars(Head(items).name) + ItemChars(Tail(items))

ContentChars(content) ==
  IF content = Undefined THEN 0
  ELSE IF content.kind = "string" THEN Len(content.value)
  ELSE ItemChars(content.items)

\* Buffer.byteLength(line, "utf8"): the braces and the characters of the strings.
lineByteLength(line) == 2 + NameChars(line.tool_name) + ContentChars(line.content)

\* extractEpochMs: the epoch of the record's timestamp, in ms.
extractEpochMs(rec) == rec.timestamp

\* String.prototype.toLowerCase over the role strings of the logs.
toLowerCase(s) ==
  CASE s \in { "user", "User", "USER" } -> "user"
    [] s \in { "assistant", "Assistant" } -> "assistant"
    [] OTHER -> s

\* One field as a role: present, and "user" or "assistant" in lower case.
roleOf(field) ==
  IF field # Undefined /\ toLowerCase(field[1]) \in { "user", "assistant" }
    THEN Some(toLowerCase(field[1])) ELSE Undefined

\* extractRole of the correlator: "user", "assistant" or undefined, from
\* role, then from message.role.
extractRole(rec) ==
  IF roleOf(rec.role) # Undefined THEN roleOf(rec.role) ELSE roleOf(rec.message)

\* extractRole of the tracker's scorer: from type, then role, then message.role.
trackerExtractRole(rec) ==
  IF roleOf(rec.type) # Undefined THEN roleOf(rec.type)
  ELSE IF roleOf(rec.role) # Undefined THEN roleOf(rec.role)
  ELSE roleOf(rec.message)

\* String.prototype.trim for the blank character.
RECURSIVE trimStart(_)
trimStart(n) == IF n # << >> /\ Head(n) = " " THEN trimStart(Tail(n)) ELSE n

RECURSIVE trimEnd(_)
trimEnd(n) ==
  IF n # << >> /\ n[Len(n)] = " " THEN trimEnd(SubSeq(n, 1, Len(n) - 1)) ELSE n

trim(n) == trimEnd(trimStart(n))

\* String.prototype.includes.
includes(s, sub) ==
  \E i \in 0..(Len(s) - Len(sub)) : SubSeq(s, i + 1, i + Len(sub)) = sub

\* The item counts as a tool use: its type contains "tool".
isToolItemAlways(item) == TRUE

isToolItem(item) == includes(item.type, << "t", "o", "o", "l" >>)

\* The names pushed for the items of a content array.
RECURSIVE contentNames(_)
contentNames(items) ==
  IF items = << >> THEN << >>
  ELSE LET item == Head(items)
       IN (IF isToolItem(item) /\ item.name # Undefined THEN << item.name[1] >> ELSE << >>)
            \o contentNames(Tail(items))

\* names.map(trim).filter(non-empty).map(slice(0, 120))
RECURSIVE sanitize(_)
sanitize(names) ==
  IF names = << >> THEN << >>
  ELSE LET n == trim(Head(names))
       IN (IF Len(n) > 0 THEN << IF Len(n) > 120 THEN SubSeq(n, 1, 120) ELSE n >> ELSE << >>)
            \o sanitize(Tail(names))

extractToolNames(rec) ==
  sanitize((IF rec.tool_name # Undefined THEN << rec.tool_name[1] >> ELSE << >>)
             \o (IF rec.content # Undefined /\ rec.content.kind = "array"
                   THEN contentNames(rec.content.items) ELSE << >>))

extractTokenUsage(rec) == rec.usage

Elements(s) == { s[i] : i \in 1..Len(s) }

applyRecord(bucket, line) ==
  LET toolNames == extractToolNames(line)
      usage == extractTokenUsage(line)
  IN [ bucket EXCEPT
         !.recordCount = @ + 1,
         !.recordBytes = @ + lineByteLength(line),
         !.toolUseCount = @ + Len(toolNames),
         !.toolUseNames = @ \cup Elements(toolNames),
         !.inputTokenCount =
            IF usage # Undefined /\ usage.input_tokens # Undefined
              THEN @ + usage.input_tokens[1] ELSE @,
         !.outputTokenCount =
            IF usage # Undefined /\ usage.output_tokens # Undefined
              THEN @ + usage.output_tokens[1] ELSE @ ]

\* The pointer set to the turn of the epoch, whatever turn was reached before.
turnPtrOfEpoch(turnPtr, turns, epochMs) ==
  LET reached == { k \in 1..Len(turns) : startedAtMsEpoch + turns[k].tMs <= epochMs }
  IN IF reached = {} THEN 0 ELSE (CHOOSE k \in reached : \A l \in reached : l <= k) - 1

\* turnPtr is the 0-based position of the current turn in opts.turns.
RECURSIVE advanceTurnPtr(_, _, _)
advanceTurnPtr(turnPtr, turns, epochMs) ==
  IF turnPtr + 1 < Len(turns) /\ epochMs >= startedAtMsEpoch + turns[turnPtr + 2].tMs
    THEN advanceTurnPtr(turnPtr + 1, turns, epochMs)
    ELSE turnPtr

\* The sequential pointer starting at the first turn.
StartOfStreamAtFirstTurn(turns) ==
  [ parsedLines |-> 0, parsedBytes |-> 0, parseErrors |-> 0,
    usedTimestamps |-> 0, seenAnyTimestamp |-> 0, usedSequential |-> FALSE,
    turnPtr |-> 0, seqTurnPtr |-> 0, stopped |-> FALSE,
    perTurn |-> [ i \in 1..Len(turns) |->
                    [ turnIndex |-> turns[i].index, recordCount |-> 0, recordBytes |-> 0,
                      toolUseCount |-> 0, toolUseNames |-> {},
                      inputTokenCount |-> 0, outputTokenCount |-> 0 ] ] ]

\* The correlator's local variables before the first line; stopped: the loop
\* over the lines was left by break.
StartOfStream(turns) ==
  [ parsedLines |-> 0, parsedBytes |-> 0, parseErrors |-> 0,
    usedTimestamps |-> 0, seenAnyTimestamp |-> 0, usedSequential |-> FALSE,
    turnPtr |-> 0, seqTurnPtr |-> -1, stopped |-> FALSE,
    perTurn |-> [ i \in 1..Len(turns) |->
                    [ turnIndex |-> turns[i].index, recordCount |-> 0, recordBytes |-> 0,
                      toolUseCount |-> 0, toolUseNames |-> {},
                      inputTokenCount |-> 0, outputTokenCount |-> 0 ] ] ]

\* One iteration of the loop over the lines.
onLine(c, line, turns, endedAtMsEpoch) ==
  LET startWindowMs == startedAtMsEpoch - 10000
      counted == [ c EXCEPT !.parsedLines = @ + 1, !.parsedBytes = @ + lineByteLength(line) ]
      epochMs == extractEpochMs(line)
      role == extractRole(line)
  IN IF c.stopped THEN c
     ELSE IF ~line.json THEN [ counted EXCEPT !.parseErrors = @ + 1 ]
     ELSE IF epochMs # Undefined
       THEN LET seen == [ counted EXCEPT !.seenAnyTimestamp = @ + 1 ]
                ptr == advanceTurnPtr(c.turnPtr, turns, epochMs[1])
            IN IF epochMs[1] < startWindowMs THEN seen
               ELSE IF /\ endedAtMsEpoch # Undefined
                       /\ epochMs[1] > endedAtMsEpoch[1] + 60000
                       /\ c.usedTimestamps > 0
                 THEN [ seen EXCEPT !.stopped = TRUE ]
               ELSE [ seen EXCEPT !.usedTimestamps = @ + 1,
                                  !.turnPtr = ptr,
                                  !.perTurn[ptr + 1] = applyRecord(@, line) ]
       ELSE LET advanced ==
                  IF role = Some("user")
                    THEN [ counted EXCEPT !.usedSequential = TRUE, !.seqTurnPtr = @ + 1 ]
                    ELSE counted
            IN IF role = Some("user") /\ advanced.seqTurnPtr >= Len(turns) THEN advanced
               ELSE IF advanced.seqTurnPtr >= 0 /\ advanced.seqTurnPtr < Len(turns)
                 THEN [ advanced EXCEPT !.perTurn[advanced.seqTurnPtr + 1] = applyRecord(@, line) ]
               ELSE advanced

RECURSIVE overLines(_, _, _, _)
overLines(c, log, turns, endedAtMsEpoch) ==
  IF log = << >> THEN c
  ELSE overLines(onLine(c, Head(log), turns, endedAtMsEpoch), Tail(log), turns, endedAtMsEpoch)

\* count || undefined
orUndefined(count) == IF count = 0 THEN Undefined ELSE Some(count)

\* The JsonlCorrelation returned. toolUseNames, a sorted array without
\* duplicates, is given as the set of its elements.
correlateJsonlToTurns(log, turns, endedAtMsEpoch) ==
  IF Len(turns) = 0
    THEN [ enabled |-> TRUE, mode |-> "none", parsedLines |-> 0, parsedBytes |-> 0,
           parseErrors |-> 0, perTurn |-> << >>,
           notes |-> << "No turns recorded; cannot correlate JSONL." >> ]
    ELSE LET c == overLines(StartOfStream(turns), log, turns, endedAtMsEpoch)
             mode == IF c.usedTimestamps > 0 THEN "timestamps"
                     ELSE IF c.usedSequential THEN "sequential" ELSE "none"
         IN [ enabled |-> TRUE, mode |-> mode, parsedLines |-> c.parsedLines,
              parsedBytes |-> c.parsedBytes, parseErrors |-> c.parseErrors,
              perTurn |-> [ i \in 1..Len(turns) |->
                              [ turnIndex |-> c.perTurn[i].turnIndex,
                                recordCount |-> c.perTurn[i].recordCount,
                                recordBytes |-> c.perTurn[i].recordBytes,
                                toolUseCount |-> c.perTurn[i].toolUseCount,
                                toolUseNames |-> c.perTurn[i].toolUseNames,
                                inputTokenCount |-> orUndefined(c.perTurn[i].inputTokenCount),
                                outputTokenCount |-> orUndefined(c.perTurn[i].outputTokenCount) ] ],
              notes |->
                (IF mode = "none"
                   THEN << "No usable timestamps or user-message markers found in JSONL; correlation may be incomplete." >>
                   ELSE << >>)
                  \o (IF c.seenAnyTimestamp > 0 /\ c.usedTimestamps = 0
                        THEN << "JSONL timestamps were present but all fell outside the session time window." >>
                        ELSE << >>) ]

\* A second log for the same session: the log with every character of the
\* chosen strings, blanks excepted, replaced by another one. "texts" rewrites
\* the strings outside the tool-use names, "names" the tool-use names as well.
Rewritings == { "texts", "names" }

rewritten(s) == [ i \in DOMAIN s |-> IF s[i] = " " THEN " " ELSE "S" ]

rewrittenItem(item, how) ==
  IF item.name # Undefined /\ (how = "names" \/ item.type = TextType)
    THEN [ item EXCEPT !.name = Some(rewritten(@[1])) ]
    ELSE item

rewrittenLine(line, how) ==
  [ line EXCEPT
      !.tool_name = IF @ # Undefined /\ how = "names" THEN Some(rewritten(@[1])) ELSE @,
      !.content =
         IF @ = Undefined THEN @
         ELSE IF @.kind = "string" THEN [ @ EXCEPT !.value = rewritten(@) ]
         ELSE [ @ EXCEPT !.items = [ i \in DOMAIN @ |-> rewrittenItem(@[i], how) ] ] ]

rewrittenLog(log, how) == [ i \in DOMAIN log |-> rewrittenLine(log[i], how) ]

\* The call explored: result of the log, otherResult of the second log.
NewCorrelation(turns, endedAtMsEpoch, log) ==
  [ turns |-> turns, endedAtMsEpoch |-> endedAtMsEpoch, log |-> log,
    how |-> "none", other |-> << >>, result |-> Undefined, otherResult |-> Undefined ]

Correlate ==
  /\ corr.result = Undefined
  /\ \E how \in Rewritings :
       LET other == rewrittenLog(corr.log, how)
       IN corr' = [ corr EXCEPT
                      !.how = how,
                      !.other = other,
                      !.result = Some(correlateJsonlToTurns(corr.log, corr.turns, corr.endedAtMsEpoch)),
                      !.otherResult = Some(correlateJsonlToTurns(other, corr.turns, corr.endedAtMsEpoch)) ]
  /\ UNCHANGED << tvars, svars, exceptCorr >>

CorrelateInit ==
  /\ now = 0
  /\ tracker = NewTracker
  /\ shadow = NewTracker
  /\ nEvents = 0
  /\ nOutputs = 0
  /\ sawOutput = {}
  /\ differed = FALSE
  /\ ended = FALSE
  /\ opts = NoOptions
  /\ rs = NotRunning
  /\ fin = [ k \in Callers |-> "none" ]
  /\ host = NewHost
  /\ trace = << >>
  /\ sampler = NoMonitor
  /\ watcher = NoWatcher
  /\ jsonl = NoJsonlTracker
  /\ \E turns \in TurnLists, endedAtMsEpoch \in EndedAtMsEpochs,
        log \in SeqsUpTo(LogLines, MaxLogLines) :
       corr = NewCorrelation(turns, endedAtMsEpoch, log)
  /\ marks = NoMarks

CorrelateNext == Correlate

CorrelateSpec == CorrelateInit /\ [][CorrelateNext]_vars

\* ---------------- correlateJsonlToTurns, record by record
\* Logs of up to MaxMappingLines records that differ in timestamp and role
\* fields only.
\* Epochs of the records: before the window, at its start (before every turn),
\* within the first turn, at the second turn, at the end of the window, after it.
MappingEpochs == { 9999, 10000, 20950, 21000, 81500, 81501 }

\* The role fields of the records without timestamp.
MappingRoles ==
  { [ role |-> Some("user"), type |-> Undefined, message |-> Undefined ],
    [ role |-> Some("USER"), type |-> Undefined, message |-> Undefined ],
    [ role |-> Undefined, type |-> Some("user"), message |-> Undefined ],
    [ role |-> Undefined, type |-> Undefined, message |-> Some("user") ],
    [ role |-> Some("assistant"), type |-> Undefined, message |-> Undefined ],
    [ role |-> Some("system"), type |-> Undefined, message |-> Undefined ] }

MappingLines ==
  { UnparsedLine }
    \cup { [ UnparsedLine EXCEPT !.json = TRUE, !.timestamp = Some(ts) ] : ts \in MappingEpochs }
    \cup { [ UnparsedLine EXCEPT !.json = TRUE, !.role = r.role, !.type = r.type,
                                 !.message = r.message ] : r \in MappingRoles }

MappingInit ==
  /\ now = 0
  /\ tracker = NewTracker
  /\ shadow = NewTracker
  /\ nEvents = 0
  /\ nOutputs = 0
  /\ sawOutput = {}
  /\ differed = FALSE
  /\ ended = FALSE
  /\ opts = NoOptions
  /\ rs = NotRunning
  /\ fin = [ k \in Callers |-> "none" ]
  /\ host = NewHost
  /\ trace = << >>
  /\ sampler = NoMonitor
  /\ watcher = NoWatcher
  /\ jsonl = NoJsonlTracker
  /\ \E turns \in TurnLists, endedAtMsEpoch \in EndedAtMsEpochs,
        log \in SeqsUpTo(MappingLines, MaxMappingLines) :
       corr = NewCorrelation(turns, endedAtMsEpoch, log)
  /\ marks = NoMarks

MappingNext == Correlate

MappingSpec == MappingInit /\ [][MappingNext]_vars

\* ---------------------------------------------------------------- mark / appendMarker

\* The label argument of `mark`: absent, empty, blank, a word, a padded word.
MarkLabels ==
  { Undefined, Some(<< >>), Some(<< " " >>), Some(<< "a" >>), Some(<< " ", "a" >>) }

\* The calls of appendMarker explored: at is Date.now() at the call, just
\* before or after the session start; tMs is at - startedAtMsEpoch as `mark`
\* passes it, or is left out.
MarkCalls ==
  { [ label |-> label, storePlaintextLabel |-> store, at |-> at,
      tMs |-> IF withTMs THEN Some(at - startedAtMsEpoch) ELSE Undefined ] :
      label \in MarkLabels, store \in BOOLEAN,
      at \in { startedAtMsEpoch - 1, startedAtMsEpoch + 1 }, withTMs \in BOOLEAN }

\* Variant: a plaintext label is stored instead of its hash.
appendMarkerPlaintextOnly(o) ==
  LET label == IF o.label = Undefined THEN << >> ELSE trim(o.label[1])
  IN [ tIso |-> o.at,
       tMs |-> o.tMs,
       labelSha256 |-> IF label # << >> /\ ~o.storePlaintextLabel
                         THEN Some(sha256Hex(label)) ELSE Undefined,
       label |-> IF label # << >> /\ o.storePlaintextLabel THEN Some(label) ELSE Undefined ]

\* appendMarker(opts): the record whose JSON is appended as one line. tIso is
\* kept as the epoch it denotes.
appendMarker(o) ==
  LET label == IF o.label = Undefined THEN << >> ELSE trim(o.label[1])
  IN [ tIso |-> o.at,
       tMs |-> o.tMs,
       labelSha256 |-> IF label # << >> THEN Some(sha256Hex(label)) ELSE Undefined,
       label |-> IF label # << >> /\ o.storePlaintextLabel THEN Some(label) ELSE Undefined ]

markerLineToEvent(line, tMs) ==
  [ tMs |-> tMs, label |-> line.label, labelSha256 |-> line.labelSha256 ]

\* The tMs the watcher derives for a parsed line.
markerTMs(parsed) ==
  IF parsed.tMs # Undefined THEN parsed.tMs[1] ELSE parsed.tIso - startedAtMsEpoch

\* A sibling `mark` invocation appends its line to markers.jsonl.
Mark ==
  /\ Len(marks.calls) < MaxMarks
  /\ \E o \in MarkCalls :
       marks' = [ marks EXCEPT !.calls = Append(@, o),
                               !.lines = Append(@, appendMarker(o)) ]
  /\ UNCHANGED << tvars, svars, exceptMarks >>

\* The watcher's loop over the lines read reaches the next line: it is
\* skipped when its tMs is negative, and handed to onMarker otherwise.
MarkerLineRead ==
  /\ marks.consumed < Len(marks.lines)
  /\ LET parsed == marks.lines[marks.consumed + 1]
         tMs == markerTMs(parsed)
     IN marks' = [ marks EXCEPT
                     !.consumed = @ + 1,
                     !.events = IF tMs < 0 THEN @
                                ELSE Append(@, [ line |-> marks.consumed + 1,
                                                 event |-> markerLineToEvent(parsed, tMs) ]) ]
  /\ UNCHANGED << tvars, svars, exceptMarks >>

MarkInit ==
  /\ now = 0
  /\ tracker = NewTracker
  /\ shadow = NewTracker
  /\ nEvents = 0
  /\ nOutputs = 0
  /\ sawOutput = {}
  /\ differed = FALSE
  /\ ended = FALSE
  /\ opts = NoOptions
  /\ rs = NotRunning
  /\ fin = [ k \in Callers |-> "none" ]
  /\ host = NewHost
  /\ trace = << >>
  /\ sampler = NoMonitor
  /\ watcher = NoWatcher
  /\ jsonl = NoJsonlTracker
  /\ corr = NoCorrelation
  /\ marks = NoMarks

MarkNext ==
  \/ Mark
  \/ MarkerLineRead

MarkSpec == MarkInit /\ [][MarkNext]_vars

\* No component outside the tracker and runSession is running.
NoComponents ==
  /\ sampler = NoMonitor
  /\ watcher = NoWatcher
  /\ jsonl = NoJsonlTracker
  /\ corr = NoCorrelation
  /\ marks = NoMarks

MonitorInit ==
  /\ now = 0
  /\ tracker = NewTracker
  /\ shadow = NewTracker
  /\ nEvents = 0
  /\ nOutputs = 0
  /\ sawOutput = {}
  /\ differed = FALSE
  /\ ended = FALSE
  /\ opts = NoOptions
  /\ rs = NotRunning
  /\ fin = [ k \in Callers |-> "none" ]
  /\ host = NewHost
  /\ trace = << >>
  /\ \E linux \in BOOLEAN : sampler = StartedMonitor(linux, now)
  /\ watcher = NoWatcher
  /\ jsonl = NoJsonlTracker
  /\ corr = NoCorrelation
  /\ marks = NoMarks

MonitorNext ==
  \/ IntervalTick
  \/ PidusageSettles
  \/ LinuxExtrasSettle
  \/ MonitorStop
  \/ MonitorClock

MonitorSpec == MonitorInit /\ [][MonitorNext]_vars

\* ---------------------------------------------------------------- tracker actions

\* Two chunks the tracker is specified not to tell apart.
SameShape(d1, d2) ==
  /\ Len(d1) = Len(d2)
  /\ (\E i \in 1..Len(d1) : d1[i] \in {"CR", "LF"}) <=> (\E i \in 1..Len(d2) : d2[i] \in {"CR", "LF"})

Init ==
  /\ now = 0
  /\ tracker = NewTracker
  /\ shadow = NewTracker
  /\ nEvents = 0
  /\ nOutputs = 0
  /\ sawOutput = {}
  /\ differed = FALSE
  /\ ended = FALSE
  /\ opts = NoOptions
  /\ rs = NotRunning
  /\ fin = [ k \in Callers |-> "none" ]
  /\ host = NewHost
  /\ trace = << >>
  /\ NoComponents

\* The clock advances; Node runs a timer once its delay has elapsed, so time
\* does not pass a pending timer's due time.
Tick ==
  /\ now < MaxTime
  /\ \A h \in tracker.timers \cup shadow.timers : h.due > now
  /\ now' = now + 1
  /\ UNCHANGED << tracker, shadow, nEvents, nOutputs, sawOutput, differed, ended >>
  /\ UNCHANGED << svars, cvars >>

HandleInput ==
  /\ ~ended
  /\ nEvents < MaxEvents
  /\ \E data \in Chunks :
       \E data2 \in { d \in Chunks : SameShape(data, d) } :
         /\ tracker' = handleInput(tracker, data, byteLength(data), now)
         /\ shadow' = handleInput(shadow, data2, byteLength(data2), now)
         /\ differed' = (differed \/ data2 # data)
  /\ nEvents' = nEvents + 1
  /\ UNCHANGED << now, nOutputs, sawOutput, ended >>
  /\ UNCHANGED << svars, cvars >>

HandleOutput ==
  /\ nEvents < MaxEvents
  /\ \E byteLen \in 1..MaxOutputBytes :
       /\ tracker' = handleOutput(tracker, byteLen, now)
       /\ shadow' = handleOutput(shadow, byteLen, now)
  /\ nEvents' = nEvents + 1
  /\ nOutputs' = nOutputs + 1
  /\ sawOutput' = sawOutput \cup { [id |-> id, at |-> now] :
                                     id \in { a \in ActiveIds(tracker) : \A r \in sawOutput : r.id # a } }
  /\ UNCHANGED << now, differed, ended >>
  /\ UNCHANGED << svars, cvars >>

MarkTurn ==
  /\ ~ended
  /\ nEvents < MaxEvents
  /\ \E source \in MarkSources :
       /\ tracker' = markTurn(tracker, source, now)
       /\ shadow' = markTurn(shadow, source, now)
  /\ nEvents' = nEvents + 1
  /\ UNCHANGED << now, nOutputs, sawOutput, differed, ended >>
  /\ UNCHANGED << svars, cvars >>

TimerFire ==
  /\ \E h \in tracker.timers \cup shadow.timers :
       /\ h.due <= now
       /\ tracker' = IF h \in tracker.timers THEN runTimer(tracker, h) ELSE tracker
       /\ shadow' = IF h \in shadow.timers THEN runTimer(shadow, h) ELSE shadow
  /\ UNCHANGED << now, nEvents, nOutputs, sawOutput, differed, ended >>
  /\ UNCHANGED << svars, cvars >>

EndSession ==
  /\ ~ended
  /\ tracker' = endSession(tracker)
  /\ shadow' = endSession(shadow)
  /\ ended' = TRUE
  /\ UNCHANGED << now, nEvents, nOutputs, sawOutput, differed >>
  /\ UNCHANGED << svars, cvars >>

Next ==
  \/ Tick
  \/ HandleInput
  \/ HandleOutput
  \/ MarkTurn
  \/ TimerFire
  \/ EndSession

Spec == Init /\ [][Next]_vars

\* The clock advances past the last event: no handleInput, handleOutput or
\* markTurn call is left to arrive, and the pending timers come due.
LateTick ==
  /\ nEvents = MaxEvents
  /\ now >= MaxTime
  /\ now < MaxTime + interactionTimeoutMs + burstIdleMs
  /\ \A h \in tracker.timers \cup shadow.timers : h.due > now
  /\ now' = now + 1
  /\ UNCHANGED << tracker, shadow, nEvents, nOutputs, sawOutput, differed, ended >>
  /\ UNCHANGED << svars, cvars >>

\* The tracker of a session that is never ended: time passes and Node runs
\* every timer that is due.
TimerNext ==
  \/ Tick
  \/ LateTick
  \/ HandleInput
  \/ HandleOutput
  \/ MarkTurn
  \/ TimerFire

TimerSpec ==
  Init /\ [][TimerNext]_vars /\ WF_vars(Tick \/ LateTick) /\ WF_vars(TimerFire)

SessionInit ==
  /\ now = 0
  /\ tracker = NewTracker
  /\ shadow = NewTracker
  /\ nEvents = 0
  /\ nOutputs = 0
  /\ sawOutput = {}
  /\ differed = FALSE
  /\ ended = FALSE
  /\ opts \in SessionOptions
  /\ rs = NewRun("start")
  /\ fin = [ k \in Callers |-> "none" ]
  /\ host = NewHost
  /\ trace = << >>
  /\ NoComponents

SessionNext ==
  \/ Start
  \/ StartFails
  \/ CreateOverlay
  \/ Startup
  \/ OnData
  \/ OnStdinData
  \/ JsonlSelected
  \/ OnSigint
  \/ DurationTimer
  \/ ChildExit
  \/ OnExit
  \/ OnExitSettled
  \/ Catch
  \/ CatchSettled
  \/ FinalizeClearedActiveSession
  \/ FinalizeReleasedOverlay
  \/ FinalizeRendered
  \/ FinalizeWroteData
  \/ FinalizeWroteReport
  \/ SessionTick
  \/ TimerFire

SessionSpec == SessionInit /\ [][SessionNext]_vars

\* runSession for a command that is not claude, without --disable-mcps and
\* without a duration limit, exploring more stdin chunks.
StdinInit ==
  /\ SessionInit
  /\ ~opts.disableMcps /\ ~opts.correlateJsonl /\ ~opts.isClaude /\ ~opts.durationMs

StdinNext ==
  \/ Start
  \/ CreateOverlay
  \/ Startup
  \/ ChildData(MaxStdinChunks)
  \/ StdinData(MaxStdinChunks)
  \/ ChildExit
  \/ OnExit
  \/ OnExitSettled
  \/ Catch
  \/ CatchSettled
  \/ FinalizeClearedActiveSession
  \/ FinalizeRendered
  \/ FinalizeWroteData
  \/ FinalizeWroteReport
  \/ SessionTick
  \/ TimerFire

StdinSpec == StdinInit /\ [][StdinNext]_vars

\* runSession called with the numeric options of its callers: burstIdleMs is
\* a finite number or NaN, sampleIntervalMs is 100 or 0. runSession reads none
\* of them before the child is spawned.
Finite(v) == [ finite |-> TRUE, value |-> v ]
NaN == [ finite |-> FALSE, value |-> 0 ]
NumericOptions == [ burstIdleMs : { Finite(30), NaN }, sampleIntervalMs : { Finite(100), Finite(0) } ]

ValidationInit ==
  /\ now = 0
  /\ tracker = NewTracker
  /\ shadow = NewTracker
  /\ nEvents = 0
  /\ nOutputs = 0
  /\ sawOutput = {}
  /\ differed = FALSE
  /\ ended = FALSE
  /\ \E n \in NumericOptions, hotkey \in {"alt+t", "off"} :
       opts = [ disableMcps |-> FALSE, correlateJsonl |-> FALSE, turnHotkey |-> hotkey,
                isClaude |-> FALSE, durationMs |-> FALSE,
                burstIdleMs |-> n.burstIdleMs, sampleIntervalMs |-> n.sampleIntervalMs ]
  /\ rs = NewRun("start")
  /\ fin = [ k \in Callers |-> "none" ]
  /\ host = NewHost
  /\ trace = << >>
  /\ NoComponents

ValidationNext ==
  \/ Start
  \/ StartFails
  \/ CreateOverlay
  \/ Startup
  \/ OnData
  \/ ChildExit
  \/ OnExit
  \/ OnExitSettled
  \/ Catch
  \/ CatchSettled
  \/ FinalizeClearedActiveSession
  \/ FinalizeRendered
  \/ FinalizeWroteData
  \/ FinalizeWroteReport

ValidationSpec == ValidationInit /\ [][ValidationNext]_vars

\* ---------------------------------------------------------------- claims C1..C7 (Spec)

\* C1: every interaction the tracker started is emitted at most once, with one
\* of the four end reasons; once endSession has been called, every started
\* interaction has been emitted exactly once.
C1_SingleFinalization ==
  /\ \A id \in 1..(tracker.nextId - 1) : TimesEmitted(tracker, id) <= 1
  /\ \A k \in 1..Len(Interactions(tracker)) : Interactions(tracker)[k].endReason \in EndReasons
  /\ ended => \A id \in 1..(tracker.nextId - 1) : TimesEmitted(tracker, id) = 1

\* A session has ended after an overlap, a timer-driven emission and a
\* session-end emission.
C1_Witness ==
  /\ ended
  /\ \E k \in 1..Len(Interactions(tracker)) : Interactions(tracker)[k].endReason = "overlap"
  /\ \E k \in 1..Len(Interactions(tracker)) : Interactions(tracker)[k].endReason \in {"timeout", "burstIdle"}
  /\ \E k \in 1..Len(Interactions(tracker)) : Interactions(tracker)[k].endReason = "sessionEnd"

\* C2: the emitted TurnEvent indices are 1, 2, 3, ... in emission order and
\* getCurrentTurnIndex is the number of TurnEvents emitted.
C2_TurnIndices ==
  /\ \A k \in 1..Len(Turns(tracker)) : Turns(tracker)[k].index = k
  /\ getCurrentTurnIndex(tracker) = Len(Turns(tracker))

\* Three turns were begun, by Enter and by the hotkey.
C2_Witness ==
  /\ Len(Turns(tracker)) >= 3
  /\ \E k \in 1..Len(Turns(tracker)) : Turns(tracker)[k].source = "enter"
  /\ \E k \in 1..Len(Turns(tracker)) : Turns(tracker)[k].source = "hotkey"

\* Exactly two turns were begun, both by Enter, no output was ever delivered,
\* the session has not ended, and the second turn's no-output delay has
\* elapsed with no due timer left to run.
TwoEntersThenSilence ==
  /\ Len(Turns(tracker)) = 2
  /\ \A k \in 1..2 : Turns(tracker)[k].source = "enter"
  /\ nOutputs = 0
  /\ ~ended
  /\ now >= Turns(tracker)[2].tMs + interactionTimeoutMs
  /\ \A h \in tracker.timers : h.due > now

\* The turn interactions emitted so far, in emission order.
TurnInteractions(t) == SelectSeq(Interactions(t), LAMBDA i : i.kind = "turn")

\* Turn 1 with reason overlap, then turn 2 with reason timeout, and no other
\* turn interaction.
OverlapThenTimeout ==
  /\ Len(TurnInteractions(tracker)) = 2
  /\ TurnInteractions(tracker)[1].turnIndex = Some(1)
  /\ TurnInteractions(tracker)[1].endReason = "overlap"
  /\ TurnInteractions(tracker)[2].turnIndex = Some(2)
  /\ TurnInteractions(tracker)[2].endReason = "timeout"

\* C3 as stated: after two Enter inputs with no output and a silent
\* interaction timeout, the turn interactions emitted are exactly turn 1 with
\* reason overlap and turn 2 with reason timeout.
C3_AsStated ==
  TwoEntersThenSilence => OverlapThenTimeout

\* Turn 1's interaction had not been emitted when turn 2 began: the second
\* Enter arrived while the first turn's interaction was still active.
SecondEnterWhileFirstActive ==
  \A j, k \in 1..Len(tracker.out) :
    (tracker.out[k].cb = "onTurn" /\ tracker.out[k].v.index = 2 /\ j < k)
      => ~(tracker.out[j].cb = "onInteraction" /\ tracker.out[j].v.turnIndex = Some(1))

\* C3 (amended): if the second Enter arrives while the first turn's
\* interaction is still active, then after a silent interaction timeout the
\* turn interactions emitted are exactly turn 1 with reason overlap followed
\* by turn 2 with reason timeout.
C3_OverlapSemantics ==
  (TwoEntersThenSilence /\ SecondEnterWhileFirstActive) => OverlapThenTimeout

\* The second Enter came strictly later than the first, while the first turn
\* was active, and the silence elapsed.
C3_Witness ==
  /\ TwoEntersThenSilence
  /\ SecondEnterWhileFirstActive
  /\ Turns(tracker)[1].tMs < Turns(tracker)[2].tMs

\* C4: an interaction whose first output was delivered less than
\* interactionTimeoutMs after its t0 is never emitted with reason timeout.
C4_StaleTimerSafety ==
  \A k \in 1..Len(Interactions(tracker)) :
    LET i == Interactions(tracker)[k]
    IN (\E r \in sawOutput : r.id = i.id /\ r.at - i.t0Ms < interactionTimeoutMs)
         => i.endReason # "timeout"

\* An interaction that saw its first output in time was emitted at or after
\* the time its no-output timer was due.
C4_Witness ==
  \E k \in 1..Len(Interactions(tracker)) :
    LET i == Interactions(tracker)[k]
    IN /\ \E r \in sawOutput : r.id = i.id /\ r.at - i.t0Ms < interactionTimeoutMs
       /\ now >= i.t0Ms + interactionTimeoutMs

\* C5: every emitted interaction with both latencies has 0 <= t1Ms <= t2Ms.
C5_LatencyOrdering ==
  \A k \in 1..Len(Interactions(tracker)) :
    LET i == Interactions(tracker)[k]
    IN (i.t1Ms # Undefined /\ i.t2Ms # Undefined)
         => (0 <= i.t1Ms[1] /\ i.t1Ms[1] <= i.t2Ms[1])

\* An interaction was emitted whose last output came later than its first,
\* which itself came later than t0.
C5_Witness ==
  \E k \in 1..Len(Interactions(tracker)) :
    LET i == Interactions(tracker)[k]
    IN /\ i.t1Ms # Undefined /\ i.t2Ms # Undefined
       /\ 0 < i.t1Ms[1] /\ i.t1Ms[1] < i.t2Ms[1]

\* C6: an interaction emitted with reason overlap for turn N-1 is immediately
\* preceded, in callback order, by the onTurn call for turn N.
C6_CallbackOrderOnOverlap ==
  \A k \in 1..Len(tracker.out) :
    (tracker.out[k].cb = "onInteraction" /\ tracker.out[k].v.endReason = "overlap")
      => /\ k > 1
         /\ tracker.out[k - 1].cb = "onTurn"
         /\ tracker.out[k].v.turnIndex = Some(tracker.out[k - 1].v.index - 1)

\* Two overlaps happened, one caused by Enter and one by the hotkey.
C6_Witness ==
  \E j, k \in 2..Len(tracker.out) :
    /\ tracker.out[j].cb = "onInteraction" /\ tracker.out[j].v.endReason = "overlap"
    /\ tracker.out[k].cb = "onInteraction" /\ tracker.out[k].v.endReason = "overlap"
    /\ tracker.out[j - 1].v.source = "enter"
    /\ tracker.out[k - 1].v.source = "hotkey"

\* C7: a tracker fed chunks of the same byte length and terminator presence,
\* the same output lengths and the same event times, makes the same callbacks
\* with the same records.
C7_TrackerPrivacy ==
  shadow.out = tracker.out

\* The two trackers received chunks of different content, and turns and
\* interactions were emitted.
C7_Witness ==
  /\ differed
  /\ Len(Turns(tracker)) >= 1
  /\ Len(Interactions(tracker)) >= 2

\* ---------------------------------------------------------------- claims C8..C10 (SessionSpec)

\* Number of occurrences of effect e among the teardown effects.
Count(e) == Cardinality({ i \in 1..Len(trace) : trace[i] = e })

\* The invocations of finalize that ran its body.
BodyRuns == { k \in Callers : fin[k] \notin {"none", "returnedAtOnce"} }

\* C8: however often finalize is triggered, its body runs at most once: the
\* tracker, the sampler and the marker watcher are stopped at most once, the
\* child-exit handling runs at most once, and data.json and report.html are
\* each written at most once.
C8_FinalizeIdempotent ==
  /\ Cardinality(BodyRuns) <= 1
  /\ Count("tracker.endSession") <= 1
  /\ Count("monitor.stop") <= 1
  /\ Count("markerWatcher.stop") <= 1
  /\ Count("onExit") <= 1
  /\ Count("writeData") <= 1
  /\ Len(host.dataJson) <= 1
  /\ Count("writeReport") <= 1
  /\ host.reportHtml <= 1

\* Both exit registrations have fired, finalize threw after writing data.json,
\* and the catch block's second call of finalize has returned.
C8_Witness ==
  /\ rs.pc = "rejected"
  /\ host.child = "exited" /\ host.exitCbs = {}
  /\ fin["onExit"] = "threw"
  /\ fin["catch"] = "returnedAtOnce"
  /\ Len(host.dataJson) = 1

\* C9: on every exit path, an invocation of finalize that ran the body has
\* stamped endedAtIso and reached the write of data.json by the time it ends.
C9_FinalizeRunsInFull ==
  \A k \in Callers :
    fin[k] \in {"returned", "threw"}
      => /\ rs.endedAtIso
         /\ Count("stampEndedAt") >= 1
         /\ Count("writeData") >= 1

\* The position of a teardown effect in the finalize order of the claim
\* (0 for an effect that is not a finalize step).
StepRank(e) ==
  CASE e = "tracker.endSession" -> 1
    [] e = "monitor.stop" -> 2
    [] e = "markerWatcher.stop" -> 3
    [] e \in {"restoreRawMode", "stdin.pause"} -> 4
    [] e \in {"detachResize", "detachStdin", "detachSigint"} -> 5
    [] e = "child.kill" -> 6
    [] e = "clearActiveSession" -> 7
    [] e = "overlay.cleanup" -> 8
    [] e = "correlate" -> 9
    [] e = "stampEndedAt" -> 10
    [] e \in {"render", "warnRenderFailed"} -> 11
    [] e = "writeData" -> 12
    [] e = "writeReport" -> 13
    [] OTHER -> 0

\* C10: the finalize steps happen in the order end tracker session, stop
\* sampler, stop marker watcher, restore terminal mode, detach handlers, kill
\* child, delete pointer, release overlay, run correlator (if requested and a
\* path was selected), stamp endedAt, render, write data.json, write
\* report.html; the written data.json holds every interaction the tracker
\* started and the render-failure warning.
C10_FinalizeOrder ==
  /\ \A i, j \in 1..Len(trace) :
       (i < j /\ StepRank(trace[i]) > 0 /\ StepRank(trace[j]) > 0)
         => StepRank(trace[i]) <= StepRank(trace[j])
  /\ (Count("stampEndedAt") >= 1 /\ opts.correlateJsonl /\ rs.jsonlActivePath)
       => Count("correlate") >= 1
  /\ \A d \in 1..Len(host.dataJson) :
       /\ \A id \in 1..(tracker.nextId - 1) :
            \E n \in 1..Len(host.dataJson[d].interactions) : host.dataJson[d].interactions[n].id = id
       /\ Count("warnRenderFailed") >= 1
            => \E w \in 1..Len(host.dataJson[d].warnings) :
                 host.dataJson[d].warnings[w] = "Failed to generate HTML report"

\* ---------------------------------------------------------------- claims C11..C20

DurationWarning == "Session duration reached; terminating target process."

SigintWarning == "SIGINT received; terminating session."

\* The warning message is among the recorded warnings of r.
Warned(r, message) == \E i \in 1..Len(r.warnings) : r.warnings[i] = message

\* A stop has been requested: by then the child has been killed, finalize is
\* started by an exit callback only, exactly when the exit is observed.
StopsLeaveFinalizeToExit ==
  (Warned(rs, DurationWarning) \/ Warned(rs, SigintWarning))
    => /\ host.child \in {"killed", "exited"}
       /\ BodyRuns \subseteq ExitCallbacks
       /\ Cardinality(BodyRuns) <= 1
       /\ (rs.finalized <=> (host.child = "exited"))
       /\ (host.child = "exited") => (Cardinality(BodyRuns) = 1 /\ Count("onExit") = 1)

\* A step that records a stop warning kills the child and does nothing else.
StopStepOnlyWarnsAndKills ==
  (/\ Len(rs'.warnings) > Len(rs.warnings)
   /\ rs'.warnings[Len(rs'.warnings)] \in {DurationWarning, SigintWarning})
    => /\ fin' = fin
       /\ trace' = trace
       /\ rs'.finalized = rs.finalized
       /\ host'.child = (IF host.child = "running" THEN "killed" ELSE host.child)
       /\ host'.listeners = host.listeners

\* No duration warning is recorded once finalize has started.
NoDurationWarningAfterFinalize ==
  (rs.finalized /\ Warned(rs', DurationWarning)) => Warned(rs, DurationWarning)

\* C11: the duration timer and the host interrupt only record a warning and
\* kill the child: they start no invocation of finalize and tear nothing
\* down. Finalize is started by the handling of the child's exit, at the
\* moment the exit is observed, and its body runs once. The handling of the
\* exit cancels the duration timer, so no duration warning is recorded once
\* finalize has started.
C11_StopsConvergeOnExit ==
  /\ [](StopsLeaveFinalizeToExit /\ (rs.finalized => rs.durationTimer # "pending"))
  /\ [][StopStepOnlyWarnsAndKills /\ NoDurationWarningAfterFinalize]_vars

\* The interrupt and the duration timer both fired before the child's exit was
\* observed; finalize then ran through and data.json holds both warnings.
C11_Witness ==
  /\ rs.durationTimer = "fired"
  /\ Warned(rs, SigintWarning)
  /\ fin["onExit"] = "returned"
  /\ rs.pc = "resolved"
  /\ Len(host.dataJson) = 1
  /\ \E i, j \in 1..Len(host.dataJson[1].warnings) :
       /\ host.dataJson[1].warnings[i] = DurationWarning
       /\ host.dataJson[1].warnings[j] = SigintWarning

\* The calls the claim prescribes for one stdin chunk.
PrescribedCalls(o, str) ==
  IF o.turnHotkey = "alt+t" /\ (str = << "ESC", "t" >> \/ str = << "ESC", "T" >>)
  THEN << Call("markTurn", << "hotkey" >>) >>
  ELSE << Call("handleInput", str), Call("write", str) >>

RECURSIVE PrescribedIo(_, _)
PrescribedIo(o, chunks) ==
  IF chunks = << >> THEN << >>
  ELSE PrescribedCalls(o, Head(chunks)) \o PrescribedIo(o, Tail(chunks))

RECURSIVE SumBytes(_)
SumBytes(chunks) ==
  IF chunks = << >> THEN 0 ELSE byteLength(Head(chunks)) + SumBytes(Tail(chunks))

\* The chunks written to the child, in order.
ChildInput == 
  LET writes == SelectSeq(host.io, LAMBDA c : c.op = "write")
  IN [ k \in 1..Len(writes) |-> writes[k].arg ]

RECURSIVE KeystrokeInputBytes(_, _)
\* The input bytes counted by the keystroke interactions with ids up to n.
KeystrokeInputBytes(t, n) ==
  IF n = 0 THEN 0
  ELSE (IF t.its[n].kind = "keystroke" THEN t.its[n].inputBytes ELSE 0)
         + KeystrokeInputBytes(t, n - 1)

\* C12: with hotkey alt+t, a chunk equal to ESC t or ESC T only marks one
\* hotkey turn: it is not written to the child and adds no input bytes; every
\* other chunk goes to handleInput and is then written to the child once, in
\* arrival order. With hotkey off the escape is forwarded like any other
\* chunk and marks no turn.
C12_HotkeySwallow ==
  /\ host.io = PrescribedIo(opts, host.stdin)
  /\ opts.turnHotkey = "alt+t"
       => /\ \A k \in 1..Len(ChildInput) : ChildInput[k] \notin HotkeyEscapes
          /\ ChildInput = SelectSeq(host.stdin, LAMBDA c : c \notin HotkeyEscapes)
          /\ Cardinality({ k \in 1..Len(Turns(tracker)) : Turns(tracker)[k].source = "hotkey" })
               = Cardinality({ k \in 1..Len(host.stdin) : host.stdin[k] \in HotkeyEscapes })
  /\ opts.turnHotkey = "off"
       => /\ ChildInput = host.stdin
          /\ \A k \in 1..Len(Turns(tracker)) : Turns(tracker)[k].source # "hotkey"
  /\ KeystrokeInputBytes(tracker, tracker.nextId - 1) = SumBytes(ChildInput)

\* With the hotkey enabled, the upper-case escape arrived and marked a turn,
\* then Enter arrived and was forwarded.
C12_Witness ==
  /\ opts.turnHotkey = "alt+t"
  /\ host.stdin = << << "ESC", "T" >>, << "CR" >> >>
  /\ Len(Turns(tracker)) = 2
  /\ ChildInput = << << "CR" >> >>

\* The positions of the samples that carry an error.
ErrorSamples == { k \in 1..Len(sampler.samples) : sampler.samples[k].error }

\* C13: a failed probe yields one sample carrying the error, that sample is
\* the last one the monitor ever emits, and onExit has been called once for
\* it; without a failed probe onExit is never called.
C13_SamplerFailure ==
  /\ sampler.onExit <= 1
  /\ Cardinality(ErrorSamples) = sampler.onExit
  /\ \A k \in ErrorSamples : k = Len(sampler.samples)
  /\ sampler.onExit = 1 => (sampler.stopped /\ sampler.probes = {})

\* After two good samples a probe failed, and the interval, which is still
\* set, has called tick again since.
C13_Witness ==
  /\ Len(sampler.samples) = 3
  /\ ErrorSamples = {3}
  /\ sampler.onExit = 1
  /\ sampler.timer = "set"
  /\ sampler.ticksAfterStop >= 1

\* A tick called while a probe is in flight changes nothing but the count of calls.
OverlappingTickIsSkipped ==
  (sampler'.ticks > sampler.ticks /\ sampler.probes # {})
    => [ sampler' EXCEPT !.ticks = 0, !.ticksAfterStop = 0 ]
         = [ sampler EXCEPT !.ticks = 0, !.ticksAfterStop = 0 ]

\* C14: at most one probe is in flight at any time, a tick called while a
\* probe is in flight does nothing, and the samples reach onSample in
\* non-decreasing tMs order.
C14_TicksDoNotOverlap ==
  /\ [](/\ Cardinality(sampler.probes) <= 1
        /\ sampler.inFlight <=> (sampler.probes # {})
        /\ \A j, k \in 1..Len(sampler.samples) :
             j < k => sampler.samples[j].tMs <= sampler.samples[k].tMs)
  /\ [][OverlappingTickIsSkipped]_vars

\* A tick was called and skipped while the initial probe was in flight, and
\* two samples with different clock readings have been emitted since.
C14_Witness ==
  /\ Len(sampler.samples) = 2
  /\ sampler.samples[1].tMs < sampler.samples[2].tMs
  /\ sampler.ticks > 2
  /\ sampler.probes # {}

\* The file offsets (from 1) covered by the k-th read.
ReadRange(k) == (watcher.reads[k].from + 1)..(watcher.reads[k].from + watcher.reads[k].n)

\* The cursor moves only forward, and only by a read that started at it.
CursorAdvancesByReads ==
  /\ watcher'.lastSize >= watcher.lastSize
  /\ watcher'.lastSize # watcher.lastSize
       => /\ Len(watcher'.reads) = Len(watcher.reads) + 1
          /\ watcher'.reads[Len(watcher'.reads)]
               = [ from |-> watcher.lastSize, n |-> watcher'.lastSize - watcher.lastSize ]

\* C15: the watcher's ticks never overlap; its cursor starts at 0, never
\* decreases and advances only by the bytes a tick read at the cursor; so no
\* byte of markers.jsonl is read by two ticks and no marker line is emitted
\* twice, whatever is appended and whichever ticks fail.
C15_WatcherCursor ==
  /\ [](/\ Cardinality(watcher.ticking) <= 1
        /\ Len(watcher.reads) = 0 => watcher.lastSize = 0
        /\ watcher.lastSize <= Len(watcher.file)
        /\ \A j, k \in 1..Len(watcher.reads) : j # k => ReadRange(j) \cap ReadRange(k) = {}
        /\ \A j, k \in 1..Len(watcher.markers) : j # k => watcher.markers[j] # watcher.markers[k])
  /\ [][CursorAdvancesByReads]_vars

\* Two marker lines were appended and emitted by two different ticks, with a
\* failed or short tick in between.
C15_Witness ==
  /\ watcher.file = MarkerLineBytes \o MarkerLineBytes
  /\ watcher.markers = << 1, 4 >>
  /\ Len(watcher.reads) >= 2
  /\ watcher.ticks = MaxWatcherTicks
  /\ watcher.lastSize = 6

\* runSession's promise has settled.
Settled == rs.pc \in {"resolved", "rejected"}

\* From the start of the try block until finalize removes it, the pointer
\* file exists; the child is spawned within that span.
PointerPresentWhileLive ==
  /\ (rs.pc \in {"try", "startup", "await", "catch"} /\ ~rs.finalized) => host.pointer
  /\ host.child # "none" => (host.pointer \/ rs.finalized)
  /\ \A k \in Callers : fin[k] = "clearActiveSession" => host.pointer

RecentScanned ==
  { i \in 1..Len(jsonl.scanned) : jsonl.scanned[i].mtimeMs >= startedAtMsEpoch - 10000 }

\* C17: in no-read mode a run of the selection policy picks, among the
\* scanned files with mtime >= startedAt - 10 s, one of greatest size, and
\* among those of greatest size one of most recent mtime, whatever the
\* mtimes of the smaller ones and the scan order; it picks nothing only when
\* there is no such file.
C17_SelectionMonotonicity ==
  (~jsonl.allowReadForSelection /\ jsonl.selections > 0)
    => IF RecentScanned = {} THEN jsonl.picked = Undefined
       ELSE \E b \in RecentScanned :
              /\ jsonl.picked = Some(jsonl.scanned[b].p)
              /\ \A i \in RecentScanned :
                   /\ jsonl.scanned[i].sizeBytes <= jsonl.scanned[b].sizeBytes
                   /\ jsonl.scanned[i].sizeBytes = jsonl.scanned[b].sizeBytes
                        => jsonl.scanned[i].mtimeMs <= jsonl.scanned[b].mtimeMs

\* In no-read mode the second file of the scan was picked for its size
\* although the first one was modified later.
C17_Witness ==
  /\ ~jsonl.allowReadForSelection
  /\ jsonl.selections = 1
  /\ Len(jsonl.scanned) = 2
  /\ RecentScanned = {1, 2}
  /\ jsonl.scanned[1].mtimeMs > jsonl.scanned[2].mtimeMs
  /\ jsonl.scanned[1].sizeBytes < jsonl.scanned[2].sizeBytes
  /\ jsonl.picked = Some(jsonl.scanned[2].p)

\* C18: with allowReadForSelection false, whatever queries and turns are
\* made, the tracker only lists directories and stats paths: no file is
\* opened or read.
C18_NoContentRead ==
  ~jsonl.allowReadForSelection
    => \A o \in jsonl.ops : o.op \in {"readdir", "stat"}

\* In no-read mode the policy has run twice, the selected file having been
\* deleted in between, and a turn has been sampled.
C18_Witness ==
  /\ ~jsonl.allowReadForSelection
  /\ jsonl.selections = 2
  /\ Len(jsonl.samples) >= 1
  /\ jsonl.picked # Undefined
  /\ \E o \in jsonl.ops : o.op = "readdir"

\* The strings of a log that are tool-use names (tool_name, and the name of
\* a content item that is not a text item), and its other strings.
ToolStrings(log) ==
  { log[i].tool_name[1] : i \in { k \in 1..Len(log) : log[k].tool_name # Undefined } }
    \cup UNION { { item.name[1] : item \in { x \in Elements(log[i].content.items) :
                                                x.type # TextType /\ x.name # Undefined } } :
                   i \in { k \in 1..Len(log) : /\ log[k].content # Undefined
                                               /\ log[k].content.kind = "array" } }

OtherStrings(log) ==
  { log[i].content.value :
      i \in { k \in 1..Len(log) : log[k].content # Undefined /\ log[k].content.kind = "string" } }
    \cup UNION { { item.name[1] : item \in { x \in Elements(log[i].content.items) :
                                                x.type = TextType /\ x.name # Undefined } } :
                   i \in { k \in 1..Len(log) : /\ log[k].content # Undefined
                                               /\ log[k].content.kind = "array" } }

\* The strings of a result that are not fixed texts of the program.
ResultNames(result) ==
  UNION { result.perTurn[i].toolUseNames : i \in 1..Len(result.perTurn) }

\* What a string would read like in the result.
Escaped(strings) == UNION { Elements(sanitize(<< n >>)) : n \in strings }

\* C19 as stated: whatever strings of the log are rewritten, the result is
\* the same, and no string of the log occurs in the result.
C19_AsStated ==
  corr.result # Undefined
    => /\ corr.result = corr.otherResult
       /\ ResultNames(corr.result[1])
            \cap Escaped(ToolStrings(corr.log) \cup OtherStrings(corr.log)) = {}

\* C19: two logs that differ only in strings outside the tool-use names
\* (same timestamps, roles, line byte lengths, token counts, item types and
\* tool-use names) yield identical results, and no string of the log outside
\* the tool-use names occurs in the result; the tool-use names themselves,
\* trimmed and cut to 120 characters, are part of the result.
C19_CorrelatorPrivacy ==
  corr.result # Undefined
    => /\ corr.how = "texts" => corr.result = corr.otherResult
       /\ \A i \in 1..Len(corr.log) :
            lineByteLength(corr.log[i]) = lineByteLength(corr.other[i])
       /\ ResultNames(corr.result[1]) \cap Escaped(OtherStrings(corr.log)) = {}
       /\ ResultNames(corr.result[1]) \subseteq Escaped(ToolStrings(corr.log))

\* Two logs of two lines that differ in a prompt text and in the name of a
\* text item were correlated by timestamps to two turns; the result holds
\* the trimmed tool name of the first line.
C19_Witness ==
  /\ corr.result # Undefined
  /\ corr.how = "texts"
  /\ Len(corr.log) = 2
  /\ Len(corr.turns) = 2
  /\ corr.log[1] # corr.other[1]
  /\ corr.log[2] # corr.other[2]
  /\ OtherStrings(corr.log) = { PromptText }
  /\ corr.result[1].mode = "timestamps"
  /\ corr.result[1].perTurn[1].toolUseNames = { << "r", "f" >> }
  /\ corr.result[1].perTurn[2].recordCount = 1
  /\ corr.result = corr.otherResult

\* The effects of the teardown before position i.
Before(i, e) == \E j \in 1..(i - 1) : trace[j] = e

\* C20: when correlation is requested and an external-log path was selected,
\* the correlator runs exactly once, during finalize, after the overlay
\* release and before data.json is written, and the written data.json holds
\* its result; when correlation is not requested it never runs.
C20_CorrelationAtFinalize ==
  /\ ~opts.correlateJsonl => Count("correlate") = 0
  /\ Count("correlate") <= 1
  /\ \A i \in 1..Len(trace) :
       trace[i] = "correlate"
         => /\ rs.finalized
            /\ Before(i, "clearActiveSession")
            /\ rs.overlay => Before(i, "overlay.cleanup")
            /\ ~Before(i, "writeData")
  /\ \A d \in 1..Len(host.dataJson) :
       (/\ opts.correlateJsonl
        /\ host.dataJson[d].jsonl # Undefined
        /\ host.dataJson[d].jsonl[1].activePathSha256)
         => /\ Count("correlate") = 1
            /\ host.dataJson[d].jsonl[1].correlation # Undefined

\* ---------------------------------------------------------------- claims C21..C30

\* Number.isFinite(burstIdleMs) fails, or sampleIntervalMs is below 1.
InvalidNumericOptions ==
  \/ ~opts.burstIdleMs.finite
  \/ ~opts.sampleIntervalMs.finite
  \/ opts.sampleIntervalMs.value < 1

\* C21: called with a non-finite burstIdleMs or with sampleIntervalMs below 1,
\* runSession rejects before any session side effect: it never enters its
\* body, the active-session pointer is not written and no child is spawned.
C21_RejectsInvalidNumericOptions ==
  InvalidNumericOptions
    => /\ rs.pc \in {"start", "rejected"}
       /\ ~host.pointer
       /\ host.child = "none"

\* The label forms a record carries.
LabelForms(rec) ==
  (IF rec.label # Undefined THEN {"label"} ELSE {})
    \cup (IF rec.labelSha256 # Undefined THEN {"labelSha256"} ELSE {})

\* The label of the call is neither absent nor empty.
NonEmptyLabel(o) == o.label # Undefined /\ o.label[1] # << >>

\* The label of the call has a character other than a blank.
NonBlankLabel(o) == o.label # Undefined /\ trim(o.label[1]) # << >>

\* C22 as stated: a marker line written with a non-empty label carries
\* exactly one of the two label forms, a marker line written without a label
\* carries neither, and so does every MarkerEvent derived from it.
C22_AsStated ==
  /\ \A i \in 1..Len(marks.lines) :
       IF NonEmptyLabel(marks.calls[i])
         THEN Cardinality(LabelForms(marks.lines[i])) = 1
         ELSE LabelForms(marks.lines[i]) = {}
  /\ \A e \in 1..Len(marks.events) :
       IF NonEmptyLabel(marks.calls[marks.events[e].line])
         THEN Cardinality(LabelForms(marks.events[e].event)) = 1
         ELSE LabelForms(marks.events[e].event) = {}

\* C22: a marker line written with a label that is not blank carries
\* labelSha256, the hash of the trimmed label, and it carries the plaintext
\* label as well exactly when plaintext storage was asked for; a marker line
\* written without a label or with a blank one carries neither; every
\* MarkerEvent carries the forms of its line.
C22_MarkerLabelForms ==
  /\ \A i \in 1..Len(marks.lines) :
       LabelForms(marks.lines[i]) =
         IF ~NonBlankLabel(marks.calls[i]) THEN {}
         ELSE IF marks.calls[i].storePlaintextLabel THEN {"label", "labelSha256"}
         ELSE {"labelSha256"}
  /\ \A i \in 1..Len(marks.lines) :
       NonBlankLabel(marks.calls[i])
         => marks.lines[i].labelSha256 = Some(sha256Hex(trim(marks.calls[i].label[1])))
  /\ \A e \in 1..Len(marks.events) :
       /\ marks.events[e].event.label = marks.lines[marks.events[e].line].label
       /\ marks.events[e].event.labelSha256 = marks.lines[marks.events[e].line].labelSha256

\* A hashed marker and a plaintext marker were written and both were emitted.
C22_Witness ==
  /\ Len(marks.events) = 2
  /\ LabelForms(marks.events[1].event) = {"labelSha256"}
  /\ LabelForms(marks.events[2].event) = {"label", "labelSha256"}
  /\ marks.calls[2].label = Some(<< " ", "a" >>)
  /\ marks.events[2].event.label = Some(<< "a" >>)

\* The pending timers whose callback is bound to interaction id.
PendingTimers(t, id) == { h \in t.timers : h.it = id }

PendingTimerInvariant ==
  \A id \in 1..(tracker.nextId - 1) :
    IF id \in ActiveIds(tracker)
      THEN /\ TimesEmitted(tracker, id) = 0
           /\ \E h \in tracker.timers :
                /\ PendingTimers(tracker, id) = { h }
                /\ h.kind = IF tracker.its[id].firstOutputAtMs = Undefined
                              THEN "noOutput" ELSE "idle"
      ELSE /\ TimesEmitted(tracker, id) = 1
           /\ PendingTimers(tracker, id) = {}

\* C23: each active interaction has exactly one pending timer, the no-output
\* timer while it has seen no output and the idle timer once it has, and a
\* finalized interaction has none; once no further event arrives, every
\* active interaction is emitted although endSession is never called.
C23_PendingTimer ==
  /\ [](PendingTimerInvariant /\ ~ended)
  /\ (nEvents = MaxEvents) ~> (ActiveIds(tracker) = {})

\* After the last event the timers have emitted a keystroke interaction as
\* burstIdle and a turn interaction as timeout, and nothing is active.
C23_Witness ==
  /\ nEvents = MaxEvents
  /\ ~ended
  /\ ActiveIds(tracker) = {}
  /\ tracker.timers = {}
  /\ \E k \in 1..Len(Interactions(tracker)) : Interactions(tracker)[k].endReason = "timeout"
  /\ \E k \in 1..Len(Interactions(tracker)) : Interactions(tracker)[k].endReason = "burstIdle"
  /\ now > MaxTime

\* The records handed to onInteraction by the step.
NewlyEmitted ==
  { tracker'.out[k].v : k \in { j \in (Len(tracker.out) + 1)..Len(tracker'.out) :
                                   tracker'.out[j].cb = "onInteraction" } }

BurstIdleEmissionTime ==
  \A i \in NewlyEmitted :
    i.endReason = "burstIdle"
      => /\ i.t2Ms # Undefined
         /\ now = i.t0Ms + i.t2Ms[1] + burstIdleMs
         /\ now' = now

\* An output event leaves one idle timer, due burstIdleMs later, for each
\* interaction that was active.
OutputRearmsIdleTimer ==
  nOutputs' = nOutputs + 1
    => \A id \in ActiveIds(tracker) :
         { h \in PendingTimers(tracker', id) : h.kind = "idle" }
           = { TimerHandle(id, "idle", now + burstIdleMs) }

HandleInputCalls ==
  LET calls == SelectSeq(host.io, LAMBDA c : c.op = "handleInput")
  IN [ k \in 1..Len(calls) |-> calls[k].arg ]

RECURSIVE EmittedKeystrokeInputBytes(_)
\* The input bytes of the emitted keystroke interactions.
EmittedKeystrokeInputBytes(is) ==
  IF is = << >> THEN 0
  ELSE (IF Head(is).kind = "keystroke" THEN Head(is).inputBytes ELSE 0)
         + EmittedKeystrokeInputBytes(Tail(is))

\* This step is a call handleInput(str, byteLength(str)).
HandleInputStep(str) ==
  host'.io = host.io \o << Call("handleInput", str), Call("write", str) >>

\* What the call does to the keystroke interaction: one is started when none
\* is active, and the active one gains the chunk's bytes.
KeystrokeAccounting(str) ==
  /\ tracker'.activeKeystroke # Undefined
  /\ LET k == tracker'.activeKeystroke[1]
     IN /\ tracker'.its[k].kind = "keystroke"
        /\ IF tracker.activeKeystroke = Undefined
           THEN k \notin DOMAIN tracker.its /\ tracker'.its[k].inputBytes = byteLength(str)
           ELSE /\ tracker.activeKeystroke = Some(k)
                /\ tracker'.its[k].inputBytes = tracker.its[k].inputBytes + byteLength(str)

\* What the call does to the turn interactions: a terminator chunk begins a
\* turn interaction holding the chunk's bytes and leaves the overlapped one as
\* it was; any other chunk adds its bytes to the active turn interaction.
TurnAccounting(str) ==
  IF bufferContainsEnter(str)
  THEN /\ tracker'.activeTurn # Undefined
       /\ LET n == tracker'.activeTurn[1]
          IN /\ n \notin DOMAIN tracker.its
             /\ tracker'.its[n].kind = "turn"
             /\ tracker'.its[n].inputBytes = byteLength(str)
       /\ tracker.activeTurn # Undefined
            => LET o == tracker.activeTurn[1]
               IN /\ tracker'.its[o].inputBytes = tracker.its[o].inputBytes
                  /\ \E k \in 1..Len(Interactions(tracker')) :
                       /\ Interactions(tracker')[k].id = o
                       /\ Interactions(tracker')[k].endReason = "overlap"
                       /\ Interactions(tracker')[k].inputBytes = tracker.its[o].inputBytes
  ELSE /\ tracker'.activeTurn = tracker.activeTurn
       /\ tracker.activeTurn # Undefined
            => LET a == tracker.activeTurn[1]
               IN tracker'.its[a].inputBytes = tracker.its[a].inputBytes + byteLength(str)

\* The call changes the input bytes of no interaction that is not active.
InputFrame ==
  \A id \in DOMAIN tracker.its :
    id \notin ActiveIds(tracker) => tracker'.its[id].inputBytes = tracker.its[id].inputBytes

\* C25: every handleInput call adds the chunk's byte length to the active
\* keystroke interaction, starting one if none is active; a chunk with a line
\* terminator adds it to the newly begun turn interaction and not to the
\* overlapped one; a chunk without one adds it to the active turn interaction
\* if there is one. After endSession the input bytes of the emitted keystroke
\* interactions sum to the byte lengths of all handleInput calls.
C25_InputByteAccounting ==
  /\ [](ended => EmittedKeystrokeInputBytes(Interactions(tracker)) = SumBytes(HandleInputCalls))
  /\ [][\A str \in SessionChunks :
          HandleInputStep(str) => KeystrokeAccounting(str) /\ TurnAccounting(str) /\ InputFrame]_vars

\* The session ended after Enter began a turn and a second Enter overlapped
\* it: two keystroke bytes were emitted and each turn interaction holds one.
C25_Witness ==
  /\ ended
  /\ HandleInputCalls = << << "CR" >>, << "CR" >> >>
  /\ EmittedKeystrokeInputBytes(Interactions(tracker)) = 2
  /\ \E k \in 1..Len(Interactions(tracker)) :
       /\ Interactions(tracker)[k].endReason = "overlap"
       /\ Interactions(tracker)[k].inputBytes = 1

\* The step adds b to the output bytes of the interactions active before it
\* and changes the output bytes of no other interaction.
CountsIntoActiveOnly(b) ==
  /\ DOMAIN tracker'.its = DOMAIN tracker.its
  /\ \A id \in DOMAIN tracker.its :
       tracker'.its[id].outputBytes
         = tracker.its[id].outputBytes + (IF id \in ActiveIds(tracker) THEN b ELSE 0)

\* A handleOutput step counts its byte length into the active interactions
\* only and emits nothing; no other step changes the output bytes of an
\* interaction.
OutputFrame ==
  IF nOutputs' = nOutputs + 1
  THEN /\ \E b \in 1..MaxOutputBytes : CountsIntoActiveOnly(b)
       /\ tracker'.out = tracker.out
  ELSE \A id \in DOMAIN tracker.its :
         tracker'.its[id].outputBytes = tracker.its[id].outputBytes

\* An emitted interaction carries the output bytes counted while it was
\* active, and nothing has been counted into it since.
EmittedOutputBytesAreFinal ==
  \A k \in 1..Len(Interactions(tracker)) :
    LET i == Interactions(tracker)[k]
    IN i.id \notin ActiveIds(tracker) /\ i.outputBytes = tracker.its[i.id].outputBytes

\* C26: each handleOutput call adds its byte length to the output bytes of
\* exactly the interactions active at that moment, at most one keystroke and
\* one turn, and changes no other interaction; output after an overlap is
\* counted only into the new turn interaction, and output with nothing active
\* is counted nowhere.
C26_OutputByteAccounting ==
  /\ [](EmittedOutputBytesAreFinal)
  /\ [][OutputFrame]_vars

\* A second Enter overlapped the first turn and output followed: the emitted
\* turn interaction holds no output and the two active interactions hold it.
C26_Witness ==
  /\ nOutputs = 1
  /\ tracker.activeKeystroke # Undefined /\ tracker.activeTurn # Undefined
  /\ tracker.its[tracker.activeKeystroke[1]].outputBytes = 1
  /\ tracker.its[tracker.activeTurn[1]].outputBytes = 1
  /\ \E k \in 1..Len(Interactions(tracker)) :
       /\ Interactions(tracker)[k].endReason = "overlap"
       /\ Interactions(tracker)[k].outputBytes = 0

\* The interaction with this id was active during at least one handleOutput.
ObservedOutput(id) == \E r \in sawOutput : r.id = id

\* C27: for every emitted Interaction, t1Ms is present iff t2Ms is present iff
\* the interaction observed at least one output; end reason timeout implies
\* both absent and no output bytes, burstIdle implies both present; overlap
\* and sessionEnd go with either.
C27_EndReasonAndLatencyFields ==
  \A k \in 1..Len(Interactions(tracker)) :
    LET i == Interactions(tracker)[k]
    IN /\ (i.t1Ms # Undefined) <=> (i.t2Ms # Undefined)
       /\ (i.t1Ms # Undefined) <=> ObservedOutput(i.id)
       /\ i.endReason = "timeout"
            => i.t1Ms = Undefined /\ i.t2Ms = Undefined /\ i.outputBytes = 0
       /\ i.endReason = "burstIdle" => i.t1Ms # Undefined /\ i.t2Ms # Undefined
       /\ i.endReason \in EndReasons

\* A turn that had seen output was overlapped, and the session ended on a
\* turn that had seen none.
C27_Witness ==
  /\ \E k \in 1..Len(Interactions(tracker)) :
       /\ Interactions(tracker)[k].endReason = "overlap"
       /\ Interactions(tracker)[k].t1Ms # Undefined
  /\ \E k \in 1..Len(Interactions(tracker)) :
       /\ Interactions(tracker)[k].endReason = "sessionEnd"
       /\ Interactions(tracker)[k].t2Ms = Undefined

\* This step is a call markTurn(source).
MarkTurnStep(source) == host'.io = Append(host.io, Call("markTurn", << source >>))

\* The step emits exactly one TurnEvent, with the next index, the time of the
\* call and the given source, and starts the turn interaction of that index.
OneTurnEvent(source) ==
  /\ Turns(tracker') = Append(Turns(tracker),
                              [ index |-> Len(Turns(tracker)) + 1, tMs |-> now, source |-> source ])
  /\ tracker'.activeTurn # Undefined
  /\ LET n == tracker'.activeTurn[1]
     IN /\ n \notin DOMAIN tracker.its
        /\ tracker'.its[n].kind = "turn"
        /\ tracker'.its[n].turnIndex = Some(Len(Turns(tracker)) + 1)

\* The step emits no TurnEvent and starts no turn interaction.
NoTurnEvent ==
  /\ Turns(tracker') = Turns(tracker)
  /\ \A id \in DOMAIN tracker'.its \ DOMAIN tracker.its : tracker'.its[id].kind # "turn"

\* The handleInput calls whose chunk holds a line terminator.
TerminatorChunks == { k \in 1..Len(HandleInputCalls) : bufferContainsEnter(HandleInputCalls[k]) }

\* The markTurn calls.
Marks == { k \in 1..Len(host.io) : host.io[k].op = "markTurn" }

\* Every turn interaction carries the index of the TurnEvent emitted when it
\* was started, and a keystroke interaction carries none.
TurnIndexOfStartingEvent ==
  \A id \in DOMAIN tracker.its :
    LET it == tracker.its[id]
    IN IF it.kind = "turn"
       THEN /\ it.turnIndex # Undefined
            /\ it.turnIndex[1] \in 1..Len(Turns(tracker))
            /\ Turns(tracker)[it.turnIndex[1]].index = it.turnIndex[1]
            /\ Turns(tracker)[it.turnIndex[1]].tMs = it.t0Ms
            /\ \A other \in DOMAIN tracker.its :
                 tracker.its[other].kind = "turn" /\ tracker.its[other].turnIndex = it.turnIndex
                   => other = id
       ELSE it.turnIndex = Undefined

\* C28: with turn detection enter, each handleInput chunk holding a CR or LF
\* produces exactly one TurnEvent with source enter, however many terminators
\* it holds; each markTurn produces exactly one TurnEvent with the given
\* source; a chunk without a terminator produces none and starts no turn
\* interaction. The number of TurnEvents is the number of terminator chunks
\* plus the number of marks, and every turn interaction's turnIndex is the
\* index of the TurnEvent that started it.
C28_TurnDetectionCount ==
  /\ [](/\ Len(Turns(tracker)) = Cardinality(TerminatorChunks) + Cardinality(Marks)
        /\ TurnIndexOfStartingEvent)
  /\ [][/\ \A str \in SessionChunks :
             HandleInputStep(str)
               => IF bufferContainsEnter(str) THEN OneTurnEvent("enter") ELSE NoTurnEvent
        /\ \A source \in MarkSources : MarkTurnStep(source) => OneTurnEvent(source)
        /\ host'.io = host.io => Turns(tracker') = Turns(tracker)]_vars

\* A chunk holding CR and LF began the first turn and a hotkey mark the
\* second.
C28_Witness ==
  /\ HandleInputCalls = << << "CR", "LF" >> >>
  /\ Cardinality(Marks) = 1
  /\ Len(Turns(tracker)) = 2
  /\ Turns(tracker)[1].source = "enter"
  /\ Turns(tracker)[2].source = "hotkey"

\* The entries of the written data.json's jsonl.samples with this turn index.
PersistedSamples(turnIndex) ==
  { k \in 1..Len(jsonl.dataJson[1]) : jsonl.dataJson[1][k].turnIndex = turnIndex }

\* C29: once data.json is written, for every turn whose stat of the selected
\* log succeeded, its jsonl.samples holds exactly one entry with that turn
\* index, carrying the turn's tMs and the size read, whatever the
\* interleaving of the sampling with later turns and with finalize.
C29_SamplesComplete ==
  jsonl.dataJson # Undefined
    => \A r \in jsonl.statOk :
         /\ Cardinality(PersistedSamples(r.turnIndex)) = 1
         /\ \A k \in PersistedSamples(r.turnIndex) : jsonl.dataJson[1][k] = r

\* The calls whose selection scan is in progress.
Scanning == { k \in 1..Len(jsonl.calls) : jsonl.calls[k].pc = "scan" }

\* C30: at most one selection scan is in progress at a time: a query that
\* arrives while a scan is running starts no second scan.
C30_SelectionSerialized == Cardinality(Scanning) <= 1

\* C31: once the monitor's stop() has returned, onSample and onExit are never
\* invoked again, even if a probe was in flight when stop() was called.
C31_SamplerStopIsFinal ==
  [][sampler.timer = "cleared"
       => sampler'.samples = sampler.samples /\ sampler'.onExit = sampler.onExit]_vars

\* The offsets at which the marker lines of markers.jsonl start.
MarkerLineOffsets ==
  { k \in 1..Len(watcher.file) : k % Len(MarkerLineBytes) = 1 }

\* The number of times the line at this offset was handed to onMarker, which
\* pushes it to session.markers.
TimesDelivered(offset) ==
  Cardinality({ k \in 1..Len(watcher.markers) : watcher.markers[k] = offset })

\* C32: every marker line appended as one whole line before finalize began is
\* exactly once in the markers of the written data.json, whatever the timing
\* of the append relative to the poll ticks and to stop(). data.json is
\* written after stop(); the markers are looked at when no tick is in flight
\* any more, the latest the write can see.
C32_MarkersReachBundle ==
  watcher.timer = "cleared" /\ watcher.ticking = {}
    => \A offset \in MarkerLineOffsets : TimesDelivered(offset) = 1

\* The warnings runSession adds for other reasons than a failed cleanup step
\* of finalize.
OtherWarnings ==
  { SigintWarning, DurationWarning, "Failed to generate HTML report",
    "Target exited with code", "Session failed" }

\* C33: when a finalize step fails, here the deletion of the active-session
\* pointer, the step is skipped, a warning is added, the remaining steps
\* run, and the data.json that is written contains that warning.
C33_FinalizeErrorsContained ==
  host.pointerFault
    => \A d \in 1..Len(host.dataJson) :
         \E j \in 1..Len(host.dataJson[d].warnings) :
           host.dataJson[d].warnings[j] \notin OtherWarnings

\* C34: with sessions sharing one state directory, whenever at least one
\* session is running the pointer file exists and names the markers file of
\* a session that is still running.
C34_PointerUnderConcurrentSessions ==
  RunningSessions # {}
    => host.pointer # Undefined /\ host.pointer[1] \in RunningSessions

\* A file with this path is in the projects directory.
Present(path) == \E i \in 1..Len(jsonl.files) : jsonl.files[i].p = path

\* The tracker holds a selected path whose file exists.
SelectedAndPresent == jsonl.activePath # Undefined /\ Present(jsonl.activePath[1])

\* A query on a tracker whose selected file exists returns the selected path
\* and keeps it.
StickyQuery ==
  (jsonl'.queries = jsonl.queries + 1 /\ SelectedAndPresent)
    => /\ jsonl'.result = jsonl.activePath
       /\ jsonl'.activePath = jsonl.activePath
       /\ jsonl'.selections = jsonl.selections

\* The persisted hash is that of the selected path.
HashOfSelectedPath ==
  jsonl.activePathSha256
    = (IF jsonl.activePath = Undefined THEN Undefined ELSE Some(sha256Hex(jsonl.activePath[1])))

ProjectCandidates ==
  { i \in 1..Len(jsonl.files) :
      jsonl.files[i].inProject /\ jsonl.files[i].mtimeMs >= startedAtMsEpoch - 10000 }

\* The files in the project directory of cwd.
ProjectFiles == SelectSeq(jsonl.files, LAMBDA f : f.inProject)

\* A run of the selection policy that takes its candidates from the project
\* directory when `fromProject` holds and from the projects root otherwise.
\* Only in the second case is the projects root listed.
ScansRoot(fromProject) ==
  jsonl'.selections = jsonl.selections + 1
    => IF fromProject
       THEN /\ jsonl'.scanned = ProjectFiles
            /\ Op("readdir", << "projectsDir", 0 >>) \in jsonl'.ops
                 => Op("readdir", << "projectsDir", 0 >>) \in jsonl.ops
       ELSE /\ jsonl'.scanned = jsonl.files
            /\ Op("readdir", << "projectsDir", 0 >>) \in jsonl'.ops

LastCandidates ==
  { i \in 1..Len(jsonl.scanned) : jsonl.scanned[i].mtimeMs >= startedAtMsEpoch - 10000 }

\* The candidates that run scored: the 25 most recently modified, the
\* earlier-scanned first among those of equal mtime.
LastScored ==
  { i \in LastCandidates :
      Cardinality({ j \in LastCandidates :
                      \/ jsonl.scanned[j].mtimeMs > jsonl.scanned[i].mtimeMs
                      \/ (jsonl.scanned[j].mtimeMs = jsonl.scanned[i].mtimeMs /\ j < i) }) < 25 }

\* The score of the candidate at position i of the scanned files.
LastScore(i) == scoreJsonlCandidateForConversation(jsonl.scanned, jsonl.scanned[i])

\* C37: with allowReadForSelection the chosen candidate is the
\* highest-scoring of the scored candidates, ties broken by larger size; when
\* every candidate scores 0 the result is what the largest-size policy
\* returns over all candidates: one of largest size and, among those, of
\* most recent mtime.
C37_ContentAwareSelection ==
  (jsonl.allowReadForSelection /\ jsonl.selections > 0 /\ LastCandidates # {})
    => \E b \in LastScored :
         /\ jsonl.picked = Some(jsonl.scanned[b].p)
         /\ \A i \in LastScored :
              /\ LastScore(i) <= LastScore(b)
              /\ LastScore(i) = LastScore(b)
                   => jsonl.scanned[i].sizeBytes <= jsonl.scanned[b].sizeBytes
         /\ (\A i \in LastCandidates : LastScore(i) = 0)
              => \A i \in LastCandidates :
                   /\ jsonl.scanned[i].sizeBytes <= jsonl.scanned[b].sizeBytes
                   /\ jsonl.scanned[i].sizeBytes = jsonl.scanned[b].sizeBytes
                        => jsonl.scanned[i].mtimeMs <= jsonl.scanned[b].mtimeMs

\* ---------------- C38
\* The correlator's local variables after the first n lines of the log.
StreamAfter(n) ==
  overLines(StartOfStream(corr.turns), SubSeq(corr.log, 1, n), corr.turns, corr.endedAtMsEpoch)

\* The buckets whose record count the i-th line raised.
BucketsOf(i) ==
  { k \in 1..Len(corr.turns) :
      StreamAfter(i).perTurn[k].recordCount > StreamAfter(i - 1).perTurn[k].recordCount }

\* The turn (position in the turn list) the i-th line was applied to, 0 for none.
AppliedTo(i) == IF BucketsOf(i) = {} THEN 0 ELSE CHOOSE k \in BucketsOf(i) : TRUE

Timestamped(i) == corr.log[i].json /\ corr.log[i].timestamp # Undefined

EpochOf(i) == corr.log[i].timestamp[1]

InWindow(i) == Timestamped(i) /\ EpochOf(i) >= startedAtMsEpoch - 10000

\* The first record later than ended_at + 60 s that follows a timestamped
\* record of the window, 0 when there is none.
StopAt ==
  LET late == { i \in 1..Len(corr.log) :
                  /\ Timestamped(i)
                  /\ corr.endedAtMsEpoch # Undefined
                  /\ EpochOf(i) > corr.endedAtMsEpoch[1] + 60000
                  /\ \E j \in 1..(i - 1) : InWindow(j) }
  IN IF late = {} THEN 0 ELSE CHOOSE i \in late : \A j \in late : i <= j

\* The timestamped records the claim has applied.
AppliedByTimestamp(i) == InWindow(i) /\ (StopAt = 0 \/ i < StopAt)

\* The latest turn whose epoch is at most epochMs, the first turn when none is.
LatestTurn(epochMs) ==
  LET reached == { k \in 1..Len(corr.turns) : startedAtMsEpoch + corr.turns[k].tMs <= epochMs }
  IN IF reached = {} THEN 1 ELSE CHOOSE k \in reached : \A l \in reached : l <= k

\* The turn the claim gives to the i-th record: the latest turn of its epoch
\* or the turn an earlier applied record has reached, whichever is later.
TurnByTimestamp(i) ==
  LET turnsSoFar == { LatestTurn(EpochOf(j)) : j \in { l \in 1..i : AppliedByTimestamp(l) } }
  IN CHOOSE k \in turnsSoFar : \A l \in turnsSoFar : l <= k

Correlated == corr.result # Undefined /\ Len(corr.turns) > 0

\* C38: a record timestamped before started_at - 10 s is applied to no
\* bucket; every other timestamped record that is processed is applied to
\* exactly one bucket, that of the latest turn whose epoch is at most the
\* record's epoch (the first turn when it precedes every turn) or of the turn
\* an earlier record has already reached; the first record later than
\* ended_at + 60 s that follows an applied timestamped record ends the
\* stream: it is the last line counted and neither it nor any later record
\* is applied.
C38_TimestampMapping ==
  Correlated =>
    /\ \A i \in 1..Len(corr.log) :
         /\ Cardinality(BucketsOf(i)) <= 1
         /\ Timestamped(i) =>
              AppliedTo(i) = IF AppliedByTimestamp(i) THEN TurnByTimestamp(i) ELSE 0
    /\ StopAt # 0 =>
         /\ corr.result[1].parsedLines = StopAt
         /\ \A i \in StopAt..Len(corr.log) : AppliedTo(i) = 0

\* A log of three timestamped records was correlated against two turns: the
\* first record at the second turn, the second out of order and before every
\* turn, the third after the window.
C38_Witness ==
  /\ Correlated
  /\ Len(corr.turns) = 2
  /\ Len(corr.log) = 3
  /\ \A i \in 1..3 : Timestamped(i)
  /\ EpochOf(1) = 21000 /\ EpochOf(2) = 10000 /\ EpochOf(3) = 81501
  /\ StopAt = 3
  /\ AppliedTo(1) = 2 /\ AppliedTo(2) = 2 /\ AppliedTo(3) = 0

\* ---------------- C39
\* A parsed record without timestamp that the stream reaches.
Untimestamped(i) ==
  /\ corr.log[i].json
  /\ corr.log[i].timestamp = Undefined
  /\ (StopAt = 0 \/ i < StopAt)

\* The role of the record as the correlator extracts it is user.
UserRecord(i) == Untimestamped(i) /\ extractRole(corr.log[i]) = Some("user")

\* The number of user records among the first i lines.
UserRecordsUpTo(i) == Cardinality({ j \in 1..i : UserRecord(j) })

\* The turn the claim gives to the i-th record, 0 for none.
TurnBySequence(i) ==
  IF UserRecordsUpTo(i) > Len(corr.turns) THEN 0 ELSE UserRecordsUpTo(i)

AppliedByTimestampSomewhere ==
  \E i \in 1..Len(corr.log) : Timestamped(i) /\ AppliedTo(i) # 0

AppliedBySequenceSomewhere ==
  \E i \in 1..Len(corr.log) : ~Timestamped(i) /\ AppliedTo(i) # 0

TypeUserOnly(line) ==
  /\ line.json
  /\ line.role = Undefined
  /\ line.message = Undefined
  /\ roleOf(line.type) = Some("user")

\* The log with role = user in place of type = user in those records.
WithRoleUser(log) ==
  [ i \in DOMAIN log |->
      IF TypeUserOnly(log[i])
        THEN [ log[i] EXCEPT !.role = Some("user"), !.type = Undefined ]
        ELSE log[i] ]

\* C40: the correlator takes the role of a record from its top-level type
\* or role or from message.role, as the tracker's scorer does, and the
\* correlation of a log whose records give their role by type = user alone
\* is that of the same log with role = user in these records.
C40_RoleExtraction ==
  corr.result # Undefined =>
    /\ \A i \in 1..Len(corr.log) :
         corr.log[i].json => extractRole(corr.log[i]) = trackerExtractRole(corr.log[i])
    /\ corr.result[1] =
         correlateJsonlToTurns(WithRoleUser(corr.log), corr.turns, corr.endedAtMsEpoch)

====
